---- MODULE Spec2Model ----
(***************************************************************************)
(* The robust calibration fitter of utils/calibration.ts                   *)
(* (calculateSectorCalibration and its three strategies fitLinearWith-     *)
(* OutlierRemoval, fitRansac and fitIterative).                            *)
(*                                                                         *)
(* Numbers.  The program computes in IEEE doubles.  The model computes in  *)
(* exact rationals extended with NaN and the two infinities, so that 0/0,  *)
(* x/0 and the comparisons with NaN behave as in the program; rounding is  *)
(* not modelled.  Ellipse centres and semi-axes are drawn from small       *)
(* integers and the angle is 0, which makes every aspect ratio an exact    *)
(* rational rx/ry.  Square roots are never taken: a comparison against a   *)
(* root is decided on the squares, and a root that is returned is kept as  *)
(* its radicand.                                                           *)
(***************************************************************************)
EXTENDS Integers, Sequences, FiniteSets, TLC

\* ------------------------------------------------------------------ bounds
\* Longest ellipse list given to calculateSectorCalibration.
MaxN == 3
\* Longest ellipse list of the iterative-trim specification.
MaxIterN == 5
\* Longest ellipse list of the exact-line specification.
MaxLineN == 4

\* Length of the long list given to the iterative method.
CrowdN == 100
\* Length of the lists whose centres all share one fractional cx.
SameCxN == 5
\* Most pixels of the images taken with every set of target pixels.
MaxPixels == 9

\* Last millisecond of the clock, most ellipses of one detection and most
\* regions in the working set.
MaxClock == 3

MaxDetected == 2

MaxRegions == 3
\* Most image loads under way at a time.
MaxPending == 2
\* Most effects of the sector view and most different valid props.
MaxEffects == 3
MaxInputs == 2

\* ------------------------------------------------------------- arithmetic
Abs(a) == IF a < 0 THEN -a ELSE a

Sign(a) == IF a < 0 THEN -1 ELSE IF a > 0 THEN 1 ELSE 0

RECURSIVE Gcd(_, _)
Gcd(a, b) == IF b = 0 THEN a ELSE Gcd(b, a % b)

RECURSIVE Pow2(_)
Pow2(k) == IF k = 0 THEN 1 ELSE 2 * Pow2(k - 1)

\* A number of the program is modelled either exactly, as a rational, or as
\* the IEEE-754 double the program computes.  The arithmetic on the centres
\* and aspect ratios is exact when the centres are integers (DataOf), and in
\* doubles, every operation rounded as the machine rounds it, when they are
\* given as doubles.
\*
\* An exact number is [n, d]: the rational n/d in lowest terms with d > 0, or,
\* with d = 0, NaN (n = 0), +Infinity (n = 1) or -Infinity (n = -1).
NaN == [n |-> 0, d |-> 0]

Inf(s) == [n |-> s, d |-> 0]

Q(a, b) ==
    LET g == Gcd(Abs(a), Abs(b))
    IN  IF b = 0 THEN Inf(Sign(a))
        ELSE [n |-> Sign(b) * (a \div g), d |-> Abs(b) \div g]

I(a) == [n |-> a, d |-> 1]

RatIsNaN(a) == a.d = 0 /\ a.n = 0

RatIsInf(a) == a.d = 0 /\ a.n # 0

RatAdd(a, b) ==
    IF RatIsNaN(a) \/ RatIsNaN(b) THEN NaN
    ELSE IF RatIsInf(a) /\ RatIsInf(b) THEN (IF a.n = b.n THEN a ELSE NaN)
    ELSE IF RatIsInf(a) THEN a
    ELSE IF RatIsInf(b) THEN b
    ELSE LET g == Gcd(a.d, b.d)
         IN  Q(a.n * (b.d \div g) + b.n * (a.d \div g), (a.d \div g) * b.d)

RatMul(a, b) ==
    IF RatIsNaN(a) \/ RatIsNaN(b) THEN NaN
    ELSE IF RatIsInf(a) \/ RatIsInf(b)
         THEN (IF a.n = 0 \/ b.n = 0 THEN NaN ELSE Inf(Sign(a.n) * Sign(b.n)))
    ELSE LET g1 == Gcd(Abs(a.n), b.d)
             g2 == Gcd(Abs(b.n), a.d)
         IN  Q((a.n \div g1) * (b.n \div g2), (a.d \div g2) * (b.d \div g1))

\* a / b.  0/0 and Infinity/Infinity are NaN, x/0 is a signed infinity (the
\* sign of a zero is not modelled: the zero divisor counts as +0).
RatDiv(a, b) ==
    IF RatIsNaN(a) \/ RatIsNaN(b) THEN NaN
    ELSE IF RatIsInf(a) THEN (IF RatIsInf(b) THEN NaN
                              ELSE Inf(a.n * (IF b.n < 0 THEN -1 ELSE 1)))
    ELSE IF RatIsInf(b) THEN I(0)
    ELSE IF b.n = 0 THEN (IF a.n = 0 THEN NaN ELSE Inf(Sign(a.n)))
    ELSE RatMul(a, [n |-> Sign(b.n) * b.d, d |-> Abs(b.n)])

\* a < b; false when either is NaN.
RatLess(a, b) ==
    IF RatIsNaN(a) \/ RatIsNaN(b) THEN FALSE
    ELSE IF RatIsInf(a) \/ RatIsInf(b)
         THEN (IF RatIsInf(a) /\ RatIsInf(b) THEN a.n < b.n
               ELSE IF RatIsInf(a) THEN a.n < 0 ELSE b.n > 0)
    ELSE LET g == Gcd(a.d, b.d)
         IN  a.n * (b.d \div g) < b.n * (a.d \div g)

\* The one member of a singleton.  Only({F(x) : x \in {e}}) is F(e) with e
\* worked out before F is.
Only(S) == CHOOSE r \in S : TRUE

\* ------------------------------------------------------- IEEE-754 doubles
\* Natural numbers of any size: little-endian sequences of 15-bit limbs
\* without leading zero limbs, <<>> being 0.
Base == Pow2(15)

RECURSIVE BTrim(_)
BTrim(a) ==
    IF a = <<>> THEN a
    ELSE IF a[Len(a)] = 0 THEN BTrim(SubSeq(a, 1, Len(a) - 1))
    ELSE a

RECURSIVE BInt(_)
BInt(n) == IF n = 0 THEN <<>> ELSE <<n % Base>> \o BInt(n \div Base)

BLimb(a, i) == IF i <= Len(a) THEN a[i] ELSE 0

RECURSIVE BAddFrom(_, _, _, _)
BAddFrom(a, b, i, carry) ==
    IF i > Len(a) /\ i > Len(b)
    THEN (IF carry = 0 THEN <<>> ELSE <<carry>>)
    ELSE LET t == BLimb(a, i) + BLimb(b, i) + carry
         IN  <<t % Base>> \o BAddFrom(a, b, i + 1, t \div Base)

BAdd(a, b) == BAddFrom(a, b, 1, 0)

\* a - b, for a >= b.
RECURSIVE BSubFrom(_, _, _, _)
BSubFrom(a, b, i, borrow) ==
    IF i > Len(a) THEN <<>>
    ELSE LET t == a[i] - BLimb(b, i) - borrow
         IN  <<(t + Base) % Base>> \o BSubFrom(a, b, i + 1, IF t < 0 THEN 1 ELSE 0)

BSub(a, b) == BTrim(BSubFrom(a, b, 1, 0))

RECURSIVE BCmpAt(_, _, _)
BCmpAt(a, b, i) ==
    IF i = 0 THEN 0
    ELSE IF a[i] # b[i] THEN (IF a[i] < b[i] THEN -1 ELSE 1)
    ELSE BCmpAt(a, b, i - 1)

\* -1, 0 or 1 as a is below, equal to or above b.
BCmp(a, b) ==
    IF Len(a) # Len(b) THEN (IF Len(a) < Len(b) THEN -1 ELSE 1)
    ELSE BCmpAt(a, b, Len(a))

RECURSIVE BMulSmallFrom(_, _, _, _)
BMulSmallFrom(a, d, i, carry) ==
    IF i > Len(a) THEN (IF carry = 0 THEN <<>> ELSE <<carry>>)
    ELSE LET t == a[i] * d + carry
         IN  <<t % Base>> \o BMulSmallFrom(a, d, i + 1, t \div Base)

\* a * d, for a limb d.
BMulSmall(a, d) == BTrim(BMulSmallFrom(a, d, 1, 0))

BShiftLimbs(a, k) == IF a = <<>> THEN a ELSE [i \in 1..k |-> 0] \o a

RECURSIVE BMulFrom(_, _, _)
BMulFrom(a, b, j) ==
    IF j > Len(b) THEN <<>>
    ELSE BAdd(BShiftLimbs(BMulSmall(a, b[j]), j - 1), BMulFrom(a, b, j + 1))

BMul(a, b) == BMulFrom(a, b, 1)

\* a * 2^k.
BShl(a, k) == BShiftLimbs(BMulSmall(a, Pow2(k % 15)), k \div 15)

\* The limbs 1..i of a divided by the limb d, r the remainder of the limbs
\* above.
RECURSIVE BDivSmallAt(_, _, _, _)
BDivSmallAt(a, d, i, r) ==
    IF i = 0 THEN <<>>
    ELSE LET t == r * Base + a[i]
         IN  BDivSmallAt(a, d, i - 1, t % d) \o <<t \div d>>

\* floor(a / 2^k).
BShr(a, k) ==
    IF k \div 15 >= Len(a) THEN <<>>
    ELSE LET top == SubSeq(a, (k \div 15) + 1, Len(a))
         IN  BTrim(BDivSmallAt(top, Pow2(k % 15), Len(top), 0))

RECURSIVE BitLen(_)
BitLen(n) == IF n = 0 THEN 0 ELSE 1 + BitLen(n \div 2)

\* The number of bits of a.
BBits(a) == IF a = <<>> THEN 0 ELSE 15 * (Len(a) - 1) + BitLen(a[Len(a)])

BOdd(a) == a # <<>> /\ a[1] % 2 = 1

DMin(x, y) == IF x < y THEN x ELSE y

\* The largest limb d with b * d <= r, for r < b * Base and b with its top
\* limb at least Base / 2: the quotient of the top limbs is d, d + 1 or d + 2.
BDigitGuess(r, b) ==
    DMin(Base - 1, (BLimb(r, Len(b) + 1) * Base + BLimb(r, Len(b))) \div b[Len(b)])

BDigitNear(r, b, guess) ==
    guess - Cardinality({k \in 0..1 : guess > k /\ BCmp(BMulSmall(b, guess - k), r) > 0})

BDigit(r, b) == Only({BDigitNear(r, b, guess) : guess \in {BDigitGuess(r, b)}})

\* One step of the long division by b: the digit d of the remainder r0 so
\* far, put before the quotient q of the limbs above.
BDivPut(d, r0, b, q) == [q |-> <<d>> \o q, r |-> BSub(r0, BMulSmall(b, d))]

BDivDigit(r0, b, q) == Only({BDivPut(d, r0, b, q) : d \in {BDigit(r0, b)}})

BDivStep(limb, above, b) == BDivDigit(BTrim(<<limb>> \o above.r), b, above.q)

\* Quotient and remainder of the limbs i.. of a by b > 0, the top limb of b at
\* least Base / 2.
RECURSIVE BDivModAt(_, _, _)
BDivModAt(a, b, i) ==
    IF i > Len(a) THEN [q |-> <<>>, r |-> <<>>]
    ELSE Only({BDivStep(a[i], above, b) : above \in {BDivModAt(a, b, i + 1)}})

BDivTrim(qr, up) == [q |-> BTrim(qr.q), r |-> BShr(qr.r, up)]

\* a and b are shifted up until the top limb of b is at least Base / 2.
BDivModUp(a, b, up) == BDivTrim(BDivModAt(BShl(a, up), BShl(b, up), 1), up)

BDivMod(a, b) == BDivModUp(a, b, 15 - BitLen(b[Len(b)]))

\* floor(sqrt(a)) by Newton's iteration from x >= sqrt(a).
RECURSIVE BSqrtFrom(_, _)
BSqrtNext(a, x, y) == IF BCmp(y, x) < 0 THEN BSqrtFrom(a, y) ELSE x

BSqrtFrom(a, x) ==
    Only({BSqrtNext(a, x, y) : y \in {BShr(BAdd(x, BDivMod(a, x).q), 1)}})

BSqrt(a) == IF a = <<>> THEN a ELSE BSqrtFrom(a, BShl(<<1>>, (BBits(a) + 1) \div 2))

\* A double is NaN, an infinity, zero, or s * m * 2^e with s = 1 or -1 and a
\* significand m of exactly 53 bits.  The exponent range is not modelled (no
\* value here comes near it), nor is the sign of zero (no divisor here is -0).
DNaN == [k |-> "nan", s |-> 1, m |-> <<>>, e |-> 0]

DInf(s) == [k |-> "inf", s |-> s, m |-> <<>>, e |-> 0]

DZero == [k |-> "zero", s |-> 1, m |-> <<>>, e |-> 0]

\* s * m * 2^e for m of 53 or, after a carry out of the rounding, 54 bits.
DPack(s, m, e) ==
    IF BBits(m) = 54 THEN [k |-> "num", s |-> s, m |-> BShr(m, 1), e |-> e + 1]
    ELSE [k |-> "num", s |-> s, m |-> m, e |-> e]

\* q = floor(N / 2^sh) rounded to nearest, ties to even: up when the bit
\* below (the last of qh = floor(N / 2^(sh-1))) is set and either something
\* is left below it or q is odd.
DNearest(q, qh, N, sh, sticky) ==
    IF BOdd(qh) /\ (sticky \/ BShl(qh, sh - 1) # N \/ BOdd(q)) THEN BAdd(q, <<1>>) ELSE q

DRoundBits(s, N, e, sticky, bits) ==
    IF bits <= 53
    THEN [k |-> "num", s |-> s, m |-> BShl(N, 53 - bits), e |-> e - (53 - bits)]
    ELSE DPack(s, DNearest(BShr(N, bits - 53), BShr(N, bits - 54), N, bits - 53, sticky),
               e + (bits - 53))

\* s * N * 2^e (and a little more when sticky) rounded to the nearest double,
\* ties to the even significand.
DRound(s, N, e, sticky) == IF N = <<>> THEN DZero ELSE DRoundBits(s, N, e, sticky, BBits(N))

\* s * N for 0 < N < 2^53: no rounding, the significand is N shifted up to 53
\* bits.
DWhole(s, N, up) == [k |-> "num", s |-> s, m |-> BShl(N, up), e |-> -up]

DSigned(s, N) == DWhole(s, N, 53 - BBits(N))

\* The integer n as a double.
DInt(n) == IF n = 0 THEN DZero ELSE DSigned(IF n < 0 THEN -1 ELSE 1, BInt(IF n < 0 THEN -n ELSE n))

DNeg(a) == IF a.k \in {"nan", "zero"} THEN a ELSE [a EXCEPT !.s = -a.s]

DAbs(a) == [a EXCEPT !.s = 1]

\* sa * A * 2^e + sb * B * 2^e, rounded.
DAddAligned(sa, A, sb, B, e) ==
    DRound(IF sa = sb \/ BCmp(A, B) >= 0 THEN sa ELSE sb,
           IF sa = sb THEN BAdd(A, B) ELSE IF BCmp(A, B) >= 0 THEN BSub(A, B) ELSE BSub(B, A),
           e, FALSE)

DAdd(a, b) ==
    IF a.k = "nan" \/ b.k = "nan" THEN DNaN
    ELSE IF a.k = "inf" THEN (IF b.k = "inf" /\ b.s # a.s THEN DNaN ELSE a)
    ELSE IF b.k = "inf" THEN b
    ELSE IF a.k = "zero" THEN b
    ELSE IF b.k = "zero" THEN a
    ELSE DAddAligned(a.s, BShl(a.m, a.e - DMin(a.e, b.e)),
                     b.s, BShl(b.m, b.e - DMin(a.e, b.e)), DMin(a.e, b.e))

DSub(a, b) == DAdd(a, DNeg(b))

DMul(a, b) ==
    IF a.k = "nan" \/ b.k = "nan" THEN DNaN
    ELSE IF a.k = "inf" \/ b.k = "inf"
    THEN (IF a.k = "zero" \/ b.k = "zero" THEN DNaN ELSE DInf(a.s * b.s))
    ELSE IF a.k = "zero" \/ b.k = "zero" THEN DZero
    ELSE DRound(a.s * b.s, BMul(a.m, b.m), a.e + b.e, FALSE)

DRoundQuotient(s, qr, e) == DRound(s, qr.q, e, qr.r # <<>>)

DDiv(a, b) ==
    IF a.k = "nan" \/ b.k = "nan" THEN DNaN
    ELSE IF a.k = "inf" THEN (IF b.k = "inf" THEN DNaN ELSE DInf(a.s * b.s))
    ELSE IF b.k = "inf" THEN DZero
    ELSE IF b.k = "zero" THEN (IF a.k = "zero" THEN DNaN ELSE DInf(a.s))
    ELSE IF a.k = "zero" THEN DZero
    ELSE DRoundQuotient(a.s * b.s, BDivMod(BShl(a.m, 56), b.m), a.e - b.e - 56)

DRoundRoot(N, r, e) == DRound(1, r, e, BMul(r, r) # N)

\* sqrt(N) * 2^e, rounded.
DSqrtScaled(N, e) == Only({DRoundRoot(N, r, e) : r \in {BSqrt(N)}})

DSqrt(a) ==
    IF a.k \in {"nan", "zero"} THEN a
    ELSE IF a.s < 0 THEN DNaN
    ELSE IF a.k = "inf" THEN a
    ELSE DSqrtScaled(BShl(a.m, 60 + (a.e % 2)), (a.e - (60 + (a.e % 2))) \div 2)

\* a < b; false when either is NaN.
DLess(a, b) ==
    IF a.k = "nan" \/ b.k = "nan" THEN FALSE
    ELSE LET sa == IF a.k = "zero" THEN 0 ELSE a.s
             sb == IF b.k = "zero" THEN 0 ELSE b.s
             \* |a| < |b| for two numbers of one sign
             below(x, y) == IF x.k = "inf" THEN FALSE
                            ELSE IF y.k = "inf" THEN TRUE
                            ELSE IF x.e # y.e THEN x.e < y.e
                            ELSE BCmp(x.m, y.m) < 0
         IN  IF sa # sb THEN sa < sb
             ELSE IF sa = 0 THEN FALSE
             ELSE IF sa = 1 THEN below(a, b)
             ELSE below(b, a)

\* ------------------------------------------------- numbers of either kind
IsDbl(a) == "k" \in DOMAIN a

\* The double nearest to an exact number with 32-bit numerator and
\* denominator: what a literal such as 0.15, or the quotient of two integers,
\* is in the program.
Dbl(a) ==
    IF IsDbl(a) THEN a
    ELSE IF a.d = 0 THEN (IF a.n = 0 THEN DNaN ELSE DInf(a.n))
    ELSE DDiv(DInt(a.n), DInt(a.d))

\* The two operands of an operation, as doubles.
Dbls(a, b) == <<Dbl(a), Dbl(b)>>

DSum(p) == DAdd(p[1], p[2])

DProduct(p) == DMul(p[1], p[2])

DQuotient(p) == DDiv(p[1], p[2])

DBelow(p) == DLess(p[1], p[2])

DSame(p) == p[1] = p[2]

IsNaN(a) == IF IsDbl(a) THEN a.k = "nan" ELSE RatIsNaN(a)

IsInf(a) == IF IsDbl(a) THEN a.k = "inf" ELSE RatIsInf(a)

IsFinite(a) == IF IsDbl(a) THEN a.k \in {"zero", "num"} ELSE a.d > 0

QNeg(a) == IF IsDbl(a) THEN DNeg(a) ELSE [n |-> -a.n, d |-> a.d]

QAbs(a) == IF IsDbl(a) THEN DAbs(a) ELSE [n |-> Abs(a.n), d |-> a.d]

\* An operation with a double operand is the operation on doubles, an exact
\* operand being a literal or an integer of the program.
QAdd(a, b) == IF IsDbl(a) \/ IsDbl(b) THEN DSum(Dbls(a, b)) ELSE RatAdd(a, b)

QSub(a, b) == QAdd(a, QNeg(b))

QMul(a, b) == IF IsDbl(a) \/ IsDbl(b) THEN DProduct(Dbls(a, b)) ELSE RatMul(a, b)

QDiv(a, b) == IF IsDbl(a) \/ IsDbl(b) THEN DQuotient(Dbls(a, b)) ELSE RatDiv(a, b)

\* a < b; false when either is NaN.
QLess(a, b) == IF IsDbl(a) \/ IsDbl(b) THEN DBelow(Dbls(a, b)) ELSE RatLess(a, b)

\* a <= b; false when either is NaN.
QLeq(a, b) == IF IsNaN(a) \/ IsNaN(b) THEN FALSE ELSE ~QLess(b, a)

\* a === b of the program: NaN equals nothing.
QEq(a, b) ==
    IF IsNaN(a) \/ IsNaN(b) THEN FALSE
    ELSE IF IsDbl(a) \/ IsDbl(b) THEN DSame(Dbls(a, b))
    ELSE a = b

\* Math.pow(a, 2), taken as a * a.
QSquare(a) == QMul(a, a)

\* 1 / 10^k for k <= 18: the literals 1e-5, 1e-9 and 1e-10 as doubles.
Tiny(k) ==
    LET lo == IF k < 9 THEN k ELSE 9
    IN  DDiv(DInt(1), DMul(DInt(10 ^ lo), DInt(10 ^ (k - lo))))

\* The running sum of a loop, left to right from 0.
RECURSIVE QSumTo(_, _)
QSumTo(s, k) == IF k = 0 THEN I(0) ELSE QAdd(QSumTo(s, k - 1), s[k])

\* The sum of s[lo..hi] by halves: exact addition is associative, and the
\* recursion stays shallow on long lists.
RECURSIVE QSumRange(_, _, _)
QSumRange(s, lo, hi) ==
    IF lo > hi THEN I(0)
    ELSE IF lo = hi THEN s[lo]
    ELSE LET mid == (lo + hi) \div 2
         IN  QAdd(QSumRange(s, lo, mid), QSumRange(s, mid + 1, hi))

QSum(s) ==
    IF s # <<>> /\ IsDbl(s[1]) THEN QSumTo(s, Len(s)) ELSE QSumRange(s, 1, Len(s))

\* -------------------------------------------------------------- constants
\* fitRansac's default number of trials and its inlier threshold 0.15 = 3/20.
RansacIterations == 100

RansacThreshold == Q(3, 20)

\* The floor 0.05 = 1/20 of the linear method's outlier threshold.
LinearFloor == Q(1, 20)

\* isValid needs more than this rSquared: 0.5 = 1/2.
ValidRSquared == Q(1, 2)

Methods == {"linear", "ransac", "iterative"}

\* ------------------------------------------------------------ the ellipses
\* Indices are 1-based here and 0-based in the program.
Indices(s) == 1..Len(s)

Min(a, b) == IF a < b THEN a ELSE b

Max(a, b) == IF a > b THEN a ELSE b

\* getAspectRatio for angle = 0 (cos = 1, sin = 0): w = 2*sqrt(rx^2) and
\* h = 2*sqrt(ry^2), returned as w / h.
getAspectRatio(e) == QDiv(I(2 * Abs(e.rx)), I(2 * Abs(e.ry)))

\* data = ellipses.map(e => ({ x: e.cx, y: getAspectRatio(e) })).  A centre is
\* an integer, taken exactly together with the aspect ratio, or a double,
\* with the aspect ratio the double the division w / h gives.
DataOf(ells) ==
    [i \in Indices(ells) |->
        IF ~IsDbl(ells[i].cx)
        THEN [x |-> ells[i].cx, y |-> getAspectRatio(ells[i])]
        ELSE [x |-> ells[i].cx, y |-> Dbl(getAspectRatio(ells[i]))]]

\* The points of data at the indices idxs (a sequence of indices), in order.
Pick(data, idxs) == [k \in Indices(idxs) |-> data[idxs[k]]]

\* The members of a set of indices in increasing order.
Ascending(S) ==
    LET top == IF S = {} THEN 0 ELSE CHOOSE a \in S : \A b \in S : b <= a
    IN  SelectSeq([i \in 1..top |-> i], LAMBDA i : i \in S)

\* ---------------------------------------------------------- least squares
\* The least-squares line through pts, as every fitter computes it:
\* slope = (n*sumXY - sumX*sumY) / (n*sumXX - sumX*sumX),
\* intercept = (sumY - slope*sumX) / n.
LineOf(n, sumX, sumY, slope, denom) ==
    [slope     |-> slope,
     intercept |-> QDiv(QSub(sumY, QMul(slope, sumX)), n),
     denom     |-> denom]

SlopeOf(n, sumX, sumY, sumXY, denom) ==
    LineOf(n, sumX, sumY, QDiv(QSub(QMul(n, sumXY), QMul(sumX, sumY)), denom), denom)

LineOfSums(n, sumX, sumY, sumXY, sumXX) ==
    SlopeOf(n, sumX, sumY, sumXY, QSub(QMul(n, sumXX), QMul(sumX, sumX)))

LeastSquares(pts) ==
    LineOfSums(I(Len(pts)),
               QSum([k \in Indices(pts) |-> pts[k].x]),
               QSum([k \in Indices(pts) |-> pts[k].y]),
               QSum([k \in Indices(pts) |-> QMul(pts[k].x, pts[k].y)]),
               QSum([k \in Indices(pts) |-> QMul(pts[k].x, pts[k].x)]))

\* slope * p.x + intercept
Predict(slope, intercept, p) == QAdd(QMul(slope, p.x), intercept)

\* Math.abs(p.y - (slope * p.x + intercept))
Residual(slope, intercept, p) == QAbs(QSub(p.y, Predict(slope, intercept, p)))

\* res <= Math.max(twice, floor) in doubles; Math.max of a NaN is NaN and no
\* comparison with it holds.
AtMostLarger(res, twice, floor) ==
    IF IsNaN(res) \/ IsNaN(twice) THEN FALSE
    ELSE QLeq(res, IF DLess(twice, floor) THEN floor ELSE twice)

\* res <= Math.max(Math.sqrt(variance) * 2.0, 0.05).  On exact numbers it is
\* decided on the squares (res >= 0).
WithinThreshold(res, variance) ==
    IF IsDbl(variance)
    THEN AtMostLarger(res, DMul(DSqrt(variance), DInt(2)), Dbl(LinearFloor))
    ELSE /\ ~IsNaN(res)
         /\ ~IsNaN(variance)
         /\ \/ QLeq(res, LinearFloor)
            \/ QLeq(QSquare(res), QMul(I(4), variance))

\* variance = sum of (res - meanRes)^2, over n
VarianceOf(residuals, meanRes, n) ==
    QDiv(QSum([i \in DOMAIN residuals |-> QSquare(QSub(residuals[i], meanRes))]), n)

WithinTwoSigma(ls, residuals, variance) ==
    [slope         |-> ls.slope,
     intercept     |-> ls.intercept,
     inlierIndices |-> {i \in DOMAIN residuals : WithinThreshold(residuals[i], variance)}]

FilterResiduals(ls, residuals, n) ==
    WithinTwoSigma(ls, residuals, VarianceOf(residuals, QDiv(QSum(residuals), n), n))

ResidualsOf(data, ls) ==
    FilterResiduals(ls, [i \in Indices(data) |-> Residual(ls.slope, ls.intercept, data[i])],
                    I(Len(data)))

fitLinearWithOutlierRemoval(data) == ResidualsOf(data, LeastSquares(data))

\* ------------------------------------------------------------------ ransac
\* Steps 3 of a trial: the points whose error is below the threshold, in index
\* order, their number and, for the record, the sum of their errors.
CountInliers(slope, intercept, error, inl) ==
    [skipped        |-> FALSE,
     slope          |-> slope,
     intercept      |-> intercept,
     currentInliers |-> Len(inl),
     inlierIndices  |-> inl,
     errorSum       |-> QSum([k \in Indices(inl) |-> error[inl[k]]])]

\* Steps 2 and 3 of a trial on the line through the drawn pair.
TrialOnLine(data, slope, intercept, error) ==
    CountInliers(slope, intercept, error,
                 SelectSeq([j \in Indices(data) |-> j],
                           LAMBDA j : QLess(error[j], RansacThreshold)))

\* Steps 1 to 3 of a trial on the line of the given slope through p1.
RansacThrough(data, slope, intercept) ==
    TrialOnLine(data, slope, intercept,
                [j \in Indices(data) |-> Residual(slope, intercept, data[j])])

RansacLine(data, p1, slope) == RansacThrough(data, slope, QSub(p1.y, QMul(slope, p1.x)))

\* One trial of fitRansac's loop on the drawn pair idx1 # idx2: skipped for a
\* near-vertical pair (|p2.x - p1.x| < 1e-5; for integer x, iff they are
\* equal), else the line through the pair and its inliers.
RansacTrial(data, idx1, idx2) ==
    IF IF IsDbl(data[idx1].x)
       THEN QLess(QAbs(QSub(data[idx2].x, data[idx1].x)), Tiny(5))
       ELSE data[idx2].x = data[idx1].x
    THEN [skipped |-> TRUE]
    ELSE RansacLine(data, data[idx1],
                    QDiv(QSub(data[idx2].y, data[idx1].y), QSub(data[idx2].x, data[idx1].x)))

\* if (currentInliers > maxInliers): the trial replaces the best one.
ReplacesBest(currentInliers, maxInliers) == currentInliers > maxInliers

\* for (let i = 0; i < iterations; i++)
RansacLoops(i, n) == i < RansacIterations

\* After the loop: null when fewer than 2 inliers, else the least-squares
\* refit over the best trial's inliers.
Refitted(ls, inliers) ==
    [isNull |-> FALSE, slope |-> ls.slope, intercept |-> ls.intercept, inlierIndices |-> inliers]

RansacRefit(data, best) ==
    IF best.maxInliers < 2
    THEN [isNull |-> TRUE, slope |-> I(0), intercept |-> I(0), inlierIndices |-> {}]
    ELSE Refitted(LeastSquares(Pick(data, best.bestInlierIndices)),
                  {best.bestInlierIndices[k] : k \in Indices(best.bestInlierIndices)})

\* --------------------------------------------------------------- iterative
\* const iterations = options.iterativeIterations || 3 (0 and undefined,
\* modelled as 0, are falsy).
OrDefault(v, dflt) == IF v = 0 THEN dflt ELSE v

\* percentage / 100 and n * (percentage / 100) are IEEE-754 doubles, each
\* rounded to nearest (ties to even) with a 53-bit significand; n and
\* percentage are positive integers.
RECURSIVE Pow2Mod25(_)
Pow2Mod25(k) == IF k = 0 THEN 1 ELSE (2 * Pow2Mod25(k - 1)) % 25

\* The binary exponent of the positive rational a/b: floor(log2(a/b)).
RECURSIVE Exponent(_, _)
Exponent(a, b) ==
    IF a >= 2 * b THEN 1 + Exponent(a, 2 * b)
    ELSE IF a < b THEN Exponent(2 * a, b) - 1
    ELSE 0

\* The rounding error of the double percentage / 100, in 25ths of its unit in
\* the last place 2^(e-52), e its exponent: the significand is the integer
\* nearest to percentage * 2^(50-e) / 25, so the error is decided by the
\* remainder of percentage * 2^(50-e) modulo 25 (never a tie, 25 being odd).
QuotientError(percentage) ==
    LET r == ((percentage % 25) * Pow2Mod25(50 - Exponent(percentage, 100))) % 25
    IN  IF r <= 12 THEN -r ELSE 25 - r

\* Math.floor(n * (percentage / 100)).  The double product lies below the
\* integer K = n*percentage/100 only when K is the exact product, the quotient
\* was rounded down, and n times its error exceeds half the spacing of the
\* doubles just below K (a tie rounds to K, whose significand is even).
FloorOfShare(n, percentage) ==
    LET K  == (n * percentage) \div 100
        t  == QuotientError(percentage)
        eK == Exponent(K, 1)
        b  == IF K = Pow2(eK) THEN 1 ELSE 0
    IN  IF /\ (n * percentage) % 100 = 0
           /\ t < 0
           /\ n * (-t) * Pow2(1 + b) > 25 * Pow2(eK - Exponent(percentage, 100))
        THEN K - 1
        ELSE K

\* countToRemove = Math.max(1, Math.floor(n * (percentage / 100)))
CountToRemove(n, percentage) == Max(1, FloorOfShare(n, percentage))

\* countToKeep = Math.max(3, n - countToRemove)
CountToKeep(n, percentage) == Max(3, n - CountToRemove(n, percentage))

\* residuals.sort((a, b) => b.res - a.res): a stable sort, largest residual
\* first.  cur is a sequence of original indices, res their residuals; of two
\* positions of cur the one of larger residual comes first, and of two of
\* equal residual the one that stood first.
SortDescending(cur, res) ==
    LET first(a, b) == \/ QLess(res[cur[b]], res[cur[a]])
                       \/ a < b /\ ~QLess(res[cur[a]], res[cur[b]])
        order == SortSeq([k \in Indices(cur) |-> k], first)
    IN  [pos \in Indices(cur) |-> cur[order[pos]]]

\* Math.abs(denom) < 1e-9; an exact denominator is an integer, and below 1e-9
\* iff 0.
NearSingular(denom) ==
    IF IsDbl(denom) THEN QLess(QAbs(denom), Tiny(9)) ELSE denom.n = 0

\* The loop of fitIterative goes on: k < iterations, at least 3 points left
\* and a denominator that is not near zero.
IterativeContinues(data, cur, k, iterations) ==
    /\ k < iterations
    /\ Len(cur) >= 3
    /\ ~NearSingular(LeastSquares(Pick(data, cur)).denom)

\* sorted.slice(sorted.length - keep)
KeepLast(sorted, keep) == SubSeq(sorted, Len(sorted) - keep + 1, Len(sorted))

SortAndKeep(data, cur, percentage, ls) ==
    KeepLast(SortDescending(cur, [i \in Indices(data) |->
                                 Residual(ls.slope, ls.intercept, data[i])]),
             CountToKeep(Len(cur), percentage))

\* One round of fitIterative: fit, sort by residual, keep the countToKeep
\* smallest (the tail of the sorted array).
IterativeRound(data, cur, percentage) ==
    SortAndKeep(data, cur, percentage, LeastSquares(Pick(data, cur)))

FinalFit(ls, inliers) ==
    [slope |-> ls.slope, intercept |-> ls.intercept, inlierIndices |-> inliers]

\* The final least-squares parameters of the iterative method over the
\* inliers, left at 0 when fewer than 2.
IterativeFinal(data, inliers) ==
    IF Cardinality(inliers) >= 2
    THEN FinalFit(LeastSquares(Pick(data, Ascending(inliers))), inliers)
    ELSE [slope |-> I(0), intercept |-> I(0), inlierIndices |-> inliers]

\* --------------------------------------------------------------- the model
\* A square root that is returned: Math.sqrt(radicand).
Root(radicand) == [sqrtOf |-> radicand]

\* slope * (180 / Math.PI): the slope, in units of 180/pi.
Degrees(slope) == [timesDegPerRad |-> slope]

\* Mutant of TooFew: the guard let lists of 2 through.
TooFewOffByOne(n) == n < 2

\* if (ellipses.length < 3)
TooFew(n) == n < 3

\* emptyRes; its zeros 0 = Math.sqrt(0) and 0 = 0 * (180/pi) are written in
\* the representation of the fields they fill.
EmptyResult ==
    [rotationCenterX |-> I(0), slope |-> I(0), intercept |-> I(0),
     angularResolution |-> Degrees(I(0)), rSquared |-> I(0),
     reprojectionError |-> Root(I(0)), isValid |-> FALSE]

\* Math.abs(slope) > 1e-10.  A rational in lowest terms whose numerator and
\* denominator fit 31 bits is above 1e-10 in magnitude iff it is not zero.
NotNegligible(slope) ==
    IF IsDbl(slope) THEN QLess(Tiny(10), QAbs(slope)) ELSE ~IsNaN(slope) /\ slope.n # 0

\* rotationCenterX: -intercept / slope, or 0 for a negligible slope.
\* Mutant of RotationCenter: the sign of the intercept lost.
RotationCenterNoSign(slope, intercept) ==
    IF NotNegligible(slope) THEN QDiv(intercept, slope) ELSE I(0)

RotationCenter(slope, intercept) ==
    IF NotNegligible(slope) THEN QDiv(QNeg(intercept), slope) ELSE I(0)

\* Mutant of IsValid: more than 3 inliers asked for.
IsValidStrictCount(validCount, rSquared) ==
    validCount > 3 /\ QLess(ValidRSquared, QAbs(rSquared))

\* isValid: validCount >= 3 && Math.abs(rSquared) > 0.5
IsValid(validCount, rSquared) == validCount >= 3 /\ QLess(ValidRSquared, QAbs(rSquared))

\* Mutant of StatusOf: an inlier keeps the tag it came with.
StatusOfKeepsTag(inlierIndices, i, e) ==
    IF i \in inlierIndices
    THEN (IF e.status = "none" THEN "active" ELSE e.status)
    ELSE "outlier"

\* status: inlierIndices.has(i) ? 'active' : 'outlier'
StatusOf(inlierIndices, i, e) == IF i \in inlierIndices THEN "active" ELSE "outlier"

\* const rSquared = ssTotal === 0 ? 0 : 1 - (ssRes / ssTotal)
RSquaredOf(ssRes, ssTotal) ==
    IF QEq(ssTotal, I(0)) THEN I(0) ELSE QSub(I(1), QDiv(ssRes, ssTotal))

\* The returned value, from the quality metrics.
Calibrated(ells, fit, validCount, rSquared, rmse) ==
    [result |->
        [rotationCenterX   |-> RotationCenter(fit.slope, fit.intercept),
         slope             |-> fit.slope,
         intercept         |-> fit.intercept,
         angularResolution |-> Degrees(fit.slope),
         rSquared          |-> QAbs(rSquared),
         reprojectionError |-> rmse,
         isValid           |-> IsValid(validCount, rSquared)],
     updatedEllipses |->
        [i \in Indices(ells) |->
            [ells[i] EXCEPT !.status = StatusOf(fit.inlierIndices, i, ells[i])]]]

Scored(ells, fit, validCount, ssTotal, ssRes) ==
    Calibrated(ells, fit, validCount, RSquaredOf(ssRes, ssTotal),
               IF validCount > 0 THEN Root(QDiv(ssRes, I(validCount))) ELSE Root(I(0)))

\* The second loop over the inliers: ssTotal and ssRes.
SumSquares(ells, fit, ys, meanY, residual) ==
    Scored(ells, fit, Len(ys),
           QSum([k \in Indices(ys) |-> QSquare(QSub(ys[k], meanY))]),
           QSum([k \in Indices(ys) |-> QSquare(residual[k])]))

\* The first loop over the inliers: meanY = sumY / validCount, or 0.
MeanAndSquares(ells, fit, ys, residual) ==
    SumSquares(ells, fit, ys,
               IF Len(ys) > 0 THEN QDiv(QSum(ys), I(Len(ys))) ELSE I(0),
               residual)

Quality(ells, data, fit, inl) ==
    MeanAndSquares(ells, fit,
                   [k \in Indices(inl) |-> data[inl[k]].y],
                   [k \in Indices(inl) |->
                       QSub(data[inl[k]].y, Predict(fit.slope, fit.intercept, data[inl[k]]))])

\* The tail of calculateSectorCalibration: the fit's quality over the inliers,
\* the derived fields and the re-tagged ellipses.
Complete(ells, data, fit) ==
    Quality(ells, data, fit, Ascending(fit.inlierIndices \cap Indices(data)))

\* The early return for fewer than 3 ellipses.
Reset(ells) ==
    [result          |-> EmptyResult,
     updatedEllipses |-> [i \in Indices(ells) |-> [ells[i] EXCEPT !.status = "active"]]]

\* ------------------------------------------------------- ellipse of moments
\* Two copies of the image-processing module are in the repository, and they
\* differ: "utils" is src/utils/imageProcessing.ts, "part_004" is
\* src/unnamed/part_004.
Versions == {"utils", "part_004"}

\* Math.max(a, b): NaN when either is.
QMax(a, b) == IF IsNaN(a) \/ IsNaN(b) THEN DNaN ELSE IF QLess(a, b) THEN b ELSE a

\* An angle given as a number of radians.
Radians(a) == [radians |-> a]

\* The angle 0.5 * Math.atan2(y, x), kept as the two arguments.
HalfAtan2(y, x) == [halfAtan2Of |-> <<y, x>>]

\* rx = 2 * Math.sqrt(Math.abs(lambda)) in utils,
\* 2 * Math.sqrt(Math.max(0, lambda)) in part_004.
AxisOf(version, lambda) ==
    QMul(DInt(2), DSqrt(IF version = "utils" THEN QAbs(lambda) ELSE QMax(DZero, lambda)))

\* The returned record: rx: Math.max(1, rx), ry: Math.max(1, ry).
EllipseOfAxes(id, cx, cy, rx, ry, angle) ==
    [id |-> id, cx |-> cx, cy |-> cy, rx |-> QMax(DInt(1), rx), ry |-> QMax(DInt(1), ry),
     angle |-> angle, status |-> "active"]

\* lambda1, lambda2 = (mu20 + mu02 +- common) / 2
EllipseOfCommon(version, id, cx, cy, sum, common, angle) ==
    Only({EllipseOfAxes(id, cx, cy, AxisOf(version, lambda1), AxisOf(version, lambda2), angle) :
             lambda1 \in {QDiv(QAdd(sum, common), DInt(2))},
             lambda2 \in {QDiv(QSub(sum, common), DInt(2))}})

\* common = Math.sqrt(4 * mu11 * mu11 + (mu20 - mu02) * (mu20 - mu02))
EllipseOfCentral(version, id, cx, cy, mu20, mu02, mu11, diff) ==
    Only({EllipseOfCommon(version, id, cx, cy, sum, DSqrt(squares),
                          HalfAtan2(QMul(DInt(2), mu11), diff)) :
             sum \in {QAdd(mu20, mu02)},
             squares \in {QAdd(QMul(QMul(DInt(4), mu11), mu11), QMul(diff, diff))}})

\* mu20 = m20 / m00 - xc * xc, mu02 = m02 / m00 - yc * yc,
\* mu11 = m11 / m00 - xc * yc; cx = offsetX + xc, cy = offsetY + yc.
EllipseOfCentroid(version, id, m, offsetX, offsetY, xc, yc) ==
    Only({EllipseOfCentral(version, id, QAdd(offsetX, xc), QAdd(offsetY, yc),
                           mu20, mu02, mu11, QSub(mu20, mu02)) :
             mu20 \in {QSub(QDiv(m.m20, m.m00), QMul(xc, xc))},
             mu02 \in {QSub(QDiv(m.m02, m.m00), QMul(yc, yc))},
             mu11 \in {QSub(QDiv(m.m11, m.m00), QMul(xc, yc))}})

\* calculateEllipseFromMoments on the moments m (doubles) and the offsets.
\* part_004 alone returns early on m00 === 0, with the offsets for a centre.
calculateEllipseFromMoments(version, id, m, offsetX, offsetY) ==
    IF version = "part_004" /\ QEq(m.m00, DZero)
    THEN [id |-> id, cx |-> offsetX, cy |-> offsetY, rx |-> DInt(1), ry |-> DInt(1),
          angle |-> Radians(DZero), status |-> "active"]
    ELSE Only({EllipseOfCentroid(version, id, m, offsetX, offsetY, xc, yc) :
                  xc \in {QDiv(m.m10, m.m00)}, yc \in {QDiv(m.m01, m.m00)}})

\* ------------------------------------------------------------------- state
VARIABLES
    ellipses,       \* the ellipse list given to calculateSectorCalibration
    method,         \* 'linear' | 'ransac' | 'iterative'
    options,        \* CalibrationOptions; 0 stands for an absent field
    pc,             \* "start", "ransac" (in fitRansac's loop), "iterative"
                    \* (in fitIterative's loop) or "done" (returned)
    ransac,         \* fitRansac's locals i, bestSlope, bestIntercept,
                    \* maxInliers, bestInlierIndices
    iter,           \* fitIterative's locals k and currentData (as the
                    \* sequence of its originalIndex fields)
    trials,         \* what a trial on each ordered pair of this call's data
                    \* yields: RansacTrial, tabulated on entry into fitRansac
    inlierIndices,  \* the inlier set the method chose
    out,            \* the returned { result, updatedEllipses }
    trialLog,       \* history of the RANSAC trials evaluated in this call
    prev,           \* history: what the previous call on these inputs returned
    calls,          \* number of calls made on these inputs
    scan,           \* a call of autoDetectEllipses: its arguments, its locals
                    \* and what it returned
    work,           \* the application's working set: the regions, the
                    \* ellipses, the active region and the clock
    extract,        \* a call of extractEllipseFromROI: its arguments, its
                    \* locals and what it returned
    grid,           \* a call of analyzeTransformedSpots with a grid basis:
                    \* its arguments, its locals and what it returned
    view,           \* the sector view (SectorViewModal, EvaluationLab): its
                    \* props, its state and the computations under way
    sector,         \* a call of generateSectorImage: its arguments, the output
                    \* pixels its loop has treated and the source indices it read
    spots           \* a call of analyzeTransformedSpots on given ellipses: its
                    \* options, its locals and the metrics it returned

\* The variables of a call of calculateSectorCalibration, and the others.
calibration == <<ellipses, method, options, pc, ransac, trials, iter, inlierIndices,
                 out, trialLog, prev, calls>>

imaging == <<scan>>

desk == <<work>>

sampling == <<extract>>

lattice == <<grid>>

viewing == <<view>>

mapping == <<sector>>

scoring == <<spots>>

besideCalibration == <<imaging, desk, sampling, lattice, viewing, mapping, scoring>>

besideImaging == <<calibration, desk, sampling, lattice, viewing, mapping, scoring>>

besideDesk == <<calibration, imaging, sampling, lattice, viewing, mapping, scoring>>

besideSampling == <<calibration, imaging, desk, lattice, viewing, mapping, scoring>>

besideLattice == <<calibration, imaging, desk, sampling, viewing, mapping, scoring>>

besideViewing == <<calibration, imaging, desk, sampling, lattice, mapping, scoring>>

besideMapping == <<calibration, imaging, desk, sampling, lattice, viewing, scoring>>

besideScoring == <<calibration, imaging, desk, sampling, lattice, viewing, mapping>>

vars == <<ellipses, method, options, pc, ransac, trials, iter, inlierIndices,
          out, trialLog, prev, calls, scan, work, extract, grid, view,
          sector,
          spots>>

\* ------------------------------------------------------------------ inputs
\* Where the centres lie: cx by position in the list.  "spread" has pairwise
\* distinct cx, "stacked" one cx for all, "columns" two alternating cx and
\* "corner" one ellipse apart from a stack of the others.
Layouts == {"spread", "stacked", "columns", "corner"}

CxAt(layout, i) ==
    CASE layout = "spread"  -> i - 1
      [] layout = "stacked" -> 0
      [] layout = "columns" -> (i - 1) % 2
      [] layout = "corner"  -> IF i = 1 THEN 1 ELSE 0

\* Semi-axes: aspect ratios 1, 1.1 and 1.3.
Shapes == {[rx |-> 10, ry |-> 10], [rx |-> 11, ry |-> 10], [rx |-> 13, ry |-> 10]}

\* The status an ellipse carries on input: all three of 'outlier', absent
\* and 'active' occur, by position.
StatusCycle == <<"outlier", "none", "active">>

Ellipse(i, cx, shape) ==
    [id |-> 100 + i, cx |-> cx, cy |-> 5, rx |-> shape.rx, ry |-> shape.ry,
     angle |-> 0, status |-> StatusCycle[((i - 1) % 3) + 1]]

\* All lists of n ellipses laid out by one of layouts with semi-axes in shapes.
Lists(n, layouts, shapes) ==
    {[i \in 1..n |-> Ellipse(i, I(CxAt(l, i)), sh[i])] : l \in layouts, sh \in [1..n -> shapes]}

IterationChoices == {0, 1, 2}

PercentageChoices == {0, 10, 50}

NoOptions == [iterativeIterations |-> 0, iterativePercentage |-> 0]

NoOutput == Reset(<<>>)

NoRansac ==
    [i |-> 0, bestSlope |-> I(0), bestIntercept |-> I(0), maxInliers |-> 0,
     bestInlierIndices |-> <<>>]

NoIter == [k |-> 0, currentData |-> <<>>]

NoTrials ==
    [once |-> {}, repeat |-> FALSE, maxSeen |-> 0, tieError |-> I(0), keptError |-> I(0)]

\* No call of autoDetectEllipses is under way.
NoDetection == [ellipses |-> <<>>, rois |-> <<>>]

ZeroMoments ==
    [m00 |-> 0, m10 |-> 0, m01 |-> 0, m11 |-> 0, m20 |-> 0, m02 |-> 0, count |-> 0]

NoScan ==
    [pc |-> "idle", version |-> "utils", width |-> 0, height |-> 0, target |-> {},
     minRadius |-> 0, maxRadius |-> 0, enableFiltering |-> FALSE, now |-> 0,
     pos |-> 0, stack |-> <<>>, visited |-> {}, m |-> ZeroMoments, seed |-> 0,
     filled |-> {}, detected |-> <<>>, blobs |-> <<>>, rows |-> <<>>,
     pushes |-> <<>>, out |-> NoDetection]

ImagingIdle == scan = NoScan

\* No region, no ellipse and no active region, at the start of the clock.
\* untouched is history: nothing but clearing has been asked for since the
\* state was last emptied.
NoWork ==
    [now |-> 0, rois |-> <<>>, ellipses |-> <<>>, activeRoiId |-> 0, imageSrc |-> 0,
     pending |-> <<>>, untouched |-> TRUE]

DeskIdle == work = NoWork

NoWindow == [startX |-> 0, startY |-> 0, width |-> 0, height |-> 0]

NoCanvas == [width |-> 0, height |-> 0, gray |-> <<>>]

NoRegion == [id |-> 0, cx |-> 0, cy |-> 0, rx |-> 0, ry |-> 0]

NoExtract ==
    [pc |-> "idle", version |-> "utils", roi |-> NoRegion, mode |-> "dark",
     thresholdOverride |-> 0, canvas |-> NoCanvas, window |-> NoWindow, pixels |-> <<>>,
     m |-> <<>>, out |-> <<>>]

SamplingIdle == extract = NoExtract

\* No grid and no best-fit line.
NoGrid == [grid |-> <<>>, bestFitLine |-> <<>>]

NoAnalysis ==
    [pc |-> "idle", ellipses |-> <<>>, basis |-> <<>>, placed |-> <<>>, gridInfo |-> <<>>,
     out |-> NoGrid]

LatticeIdle == grid = NoAnalysis

\* The view before its first effect: inputs 0 stands for props that do not
\* pass the test of the effect (closed, no image or no valid calibration),
\* resultSrc and image 0 for null.
NoView ==
    [inputs |-> 0, resultSrc |-> 0, image |-> 0, loading |-> FALSE, error |-> FALSE,
     requests |-> <<>>, effects |-> 0]

ViewingIdle == view = NoView

\* No call of generateSectorImage.
NoSector ==
    [pc |-> "idle", srcW |-> 0, srcH |-> 0, data |-> <<>>, slope |-> I(0),
     rotationCenterX |-> I(0), pixels |-> <<>>]

MappingIdle == sector = NoSector

\* No call of analyzeTransformedSpots on given ellipses.  search holds
\* findOptimalGrid's candidates, the number of them tried, bestScore and the
\* scores found; gridInfo is <<>> for null; metrics is <<>> until the call
\* returns.
NoSearch == [candidates |-> <<>>, tried |-> 0, bestScore |-> -1, scores |-> <<>>]

NoSpots ==
    [pc |-> "idle", ellipses |-> <<>>, mode |-> "exhaustive", basis |-> <<>>,
     basics |-> <<>>, search |-> NoSearch, gridInfo |-> <<>>, linearity |-> <<>>,
     spacing |-> <<>>, metrics |-> <<>>]

ScoringIdle == spots = NoSpots

Fresh ==
    /\ ImagingIdle
    /\ DeskIdle
    /\ SamplingIdle
    /\ LatticeIdle
    /\ ViewingIdle
    /\ MappingIdle
    /\ ScoringIdle
    /\ pc = "start"
    /\ ransac = NoRansac
    /\ trials = <<>>
    /\ iter = NoIter
    /\ inlierIndices = {}
    /\ out = NoOutput
    /\ trialLog = NoTrials
    /\ prev = NoOutput
    /\ calls = 1

Init ==
    /\ method \in Methods
    /\ ellipses \in UNION {Lists(n, Layouts, Shapes) : n \in 0..MaxN}
    /\ options \in IF method = "iterative"
                   THEN [iterativeIterations : IterationChoices,
                         iterativePercentage : PercentageChoices]
                   ELSE {NoOptions}
    /\ Fresh

\* ----------------------------------------------------------------- actions
Return(o, inl) ==
    /\ pc' = "done"
    /\ out' = o
    /\ inlierIndices' = inl

\* calculateSectorCalibration up to the method's loop: the early return, the
\* whole linear method, or the entry into fitRansac / fitIterative.
Calculate ==
    /\ pc = "start"
    /\ \E data \in {DataOf(ellipses)}, lin \in {fitLinearWithOutlierRemoval(DataOf(ellipses))} :
           IF TooFew(Len(ellipses))
           THEN Return(Reset(ellipses), {}) /\ UNCHANGED <<ransac, trials, iter>>
           ELSE IF method = "ransac"
           THEN /\ pc' = "ransac"
                /\ ransac' = NoRansac
                /\ trials' = [pr \in {q \in Indices(data) \X Indices(data) : q[1] # q[2]} |->
                                 RansacTrial(data, pr[1], pr[2])]
                /\ UNCHANGED <<iter, inlierIndices, out>>
           ELSE IF method = "iterative"
           THEN /\ pc' = "iterative"
                /\ iter' = [k |-> 0, currentData |-> [i \in Indices(data) |-> i]]
                /\ UNCHANGED <<ransac, trials, inlierIndices, out>>
           ELSE Return(Complete(ellipses, data, lin), lin.inlierIndices)
                /\ UNCHANGED <<ransac, trials, iter>>
    /\ UNCHANGED <<ellipses, method, options, trialLog, prev, calls>>
    /\ UNCHANGED besideCalibration

\* The trial log after a trial t on the drawn unordered pair.  once: the
\* pairs drawn so far, while none was drawn twice; repeat: some pair was drawn
\* more than once; maxSeen: the largest inlier count of the trials evaluated;
\* tieError: the lowest summed error among the evaluated trials that reached
\* maxSeen; keptError: the summed error of the trial the program keeps.
Logged(log, pair, t, replaced) ==
    [once      |-> IF log.repeat \/ pair \in log.once THEN {} ELSE log.once \cup {pair},
     repeat    |-> log.repeat \/ pair \in log.once,
     maxSeen   |-> IF t.skipped THEN log.maxSeen ELSE Max(log.maxSeen, t.currentInliers),
     tieError  |-> IF t.skipped \/ t.currentInliers < log.maxSeen THEN log.tieError
                   ELSE IF t.currentInliers > log.maxSeen THEN t.errorSum
                   ELSE IF QLess(t.errorSum, log.tieError) THEN t.errorSum
                   ELSE log.tieError,
     keptError |-> IF replaced THEN t.errorSum ELSE log.keptError]

\* One iteration of fitRansac's loop: Math.random draws idx1, then idx2 until
\* it differs from idx1.
RansacIterate ==
    /\ pc = "ransac"
    /\ RansacLoops(ransac.i, Len(ellipses))
    /\ \E idx1, idx2 \in Indices(ellipses) :
          /\ idx1 # idx2
          /\ \E t \in {trials[<<idx1, idx2>>]} :
             LET replaced == ~t.skipped /\ ReplacesBest(t.currentInliers, ransac.maxInliers)
             IN  /\ ransac' = IF replaced
                              THEN [i                 |-> ransac.i + 1,
                                    bestSlope         |-> t.slope,
                                    bestIntercept     |-> t.intercept,
                                    maxInliers        |-> t.currentInliers,
                                    bestInlierIndices |-> t.inlierIndices]
                              ELSE [ransac EXCEPT !.i = @ + 1]
                 /\ trialLog' = Logged(trialLog, {idx1, idx2}, t, replaced)
    /\ UNCHANGED <<ellipses, method, options, pc, trials, iter, inlierIndices, out,
                   prev, calls>>
    /\ UNCHANGED besideCalibration

\* fitRansac after its loop, and the rest of calculateSectorCalibration.
RansacReturn ==
    /\ pc = "ransac"
    /\ ~RansacLoops(ransac.i, Len(ellipses))
    /\ \E fit \in {RansacRefit(DataOf(ellipses), ransac)} :
           Return(Complete(ellipses, DataOf(ellipses), fit), fit.inlierIndices)
    /\ UNCHANGED <<ellipses, method, options, ransac, trials, iter, trialLog, prev, calls>>
    /\ UNCHANGED besideCalibration

\* One round of fitIterative's loop.
IterativeTrim ==
    /\ pc = "iterative"
    /\ IterativeContinues(DataOf(ellipses), iter.currentData, iter.k,
                          OrDefault(options.iterativeIterations, 3))
    /\ iter' = [k           |-> iter.k + 1,
                currentData |-> IterativeRound(DataOf(ellipses), iter.currentData,
                                               OrDefault(options.iterativePercentage, 10))]
    /\ UNCHANGED <<ellipses, method, options, pc, ransac, trials, inlierIndices, out,
                   trialLog, prev, calls>>
    /\ UNCHANGED besideCalibration

\* fitIterative after its loop, and the rest of calculateSectorCalibration.
IterativeReturn ==
    /\ pc = "iterative"
    /\ ~IterativeContinues(DataOf(ellipses), iter.currentData, iter.k,
                           OrDefault(options.iterativeIterations, 3))
    /\ \E fit \in {IterativeFinal(DataOf(ellipses),
                                   {iter.currentData[k] : k \in Indices(iter.currentData)})} :
           Return(Complete(ellipses, DataOf(ellipses), fit), fit.inlierIndices)
    /\ UNCHANGED <<ellipses, method, options, ransac, trials, iter, trialLog, prev, calls>>
    /\ UNCHANGED besideCalibration

\* A second call of calculateSectorCalibration with the same arguments.
Recalculate ==
    /\ pc = "done"
    /\ calls = 1
    /\ calls' = 2
    /\ prev' = out
    /\ pc' = "start"
    /\ ransac' = NoRansac
    /\ trials' = <<>>
    /\ iter' = NoIter
    /\ inlierIndices' = {}
    /\ out' = NoOutput
    /\ trialLog' = NoTrials
    /\ UNCHANGED <<ellipses, method, options>>
    /\ UNCHANGED besideCalibration

Next == Calculate \/ RansacIterate \/ RansacReturn \/ IterativeTrim \/ IterativeReturn

Spec == Init /\ [][Next]_vars

\* The two calls of calculateSectorCalibration on the same arguments.
NextRerun == Next \/ Recalculate

SpecRerun == Init /\ [][NextRerun]_vars

\* The iterative method alone: on longer lists, and on a crowd of CrowdN
\* circles in a row with each trim percentage the sidebar lets through.
Crowd == [i \in 1..CrowdN |-> Ellipse(i, I(i - 1), [rx |-> 10, ry |-> 10])]

CrowdPercentages == 1..50

InitIterative ==
    /\ method = "iterative"
    /\ \/ /\ ellipses \in UNION {Lists(n, Layouts, Shapes) : n \in 3..MaxIterN}
          /\ options \in [iterativeIterations : IterationChoices,
                          iterativePercentage : PercentageChoices]
       \/ /\ ellipses = Crowd
          /\ options \in [iterativeIterations : {1, 2},
                          iterativePercentage : CrowdPercentages]
    /\ Fresh

NextIterative == Calculate \/ IterativeTrim \/ IterativeReturn

SpecIterative == InitIterative /\ [][NextIterative]_vars

\* The linear method on points that lie exactly on y = 0.01*cx - 0.5: pairwise
\* distinct cx, rx = cx - 50 and ry = 100.
LineCxs == {100, 150, 200, 250, 300}

OnLine(i, cx) == Ellipse(i, I(cx), [rx |-> cx - 50, ry |-> 100])

InitLine ==
    /\ method = "linear"
    /\ ellipses \in UNION {{[i \in 1..n |-> OnLine(i, f[i])] :
                               f \in {g \in [1..n -> LineCxs] :
                                         \A a, b \in 1..n : a # b => g[a] # g[b]}} :
                           n \in 3..MaxLineN}
    /\ options = NoOptions
    /\ Fresh

NextLine == Calculate

SpecLine == InitLine /\ [][NextLine]_vars

\* Every centre at one and the same fractional cx, as the detector gives
\* them (cx: offsetX + xc), held as the double nearest to it: SameCxN
\* ellipses, circles but for the last two.
FractionalCxs == {Q(1, 10), Q(41087, 100)}

InitSameCx ==
    /\ method \in Methods
    /\ \E c \in FractionalCxs, sh \in [SameCxN - 1..SameCxN -> Shapes] :
           ellipses = [i \in 1..SameCxN |->
                          Ellipse(i, Dbl(c), IF i < SameCxN - 1 THEN [rx |-> 10, ry |-> 10]
                                                               ELSE sh[i])]
    /\ options = NoOptions
    /\ Fresh

NextSameCx == Calculate \/ RansacIterate \/ RansacReturn \/ IterativeReturn

SpecSameCx == InitSameCx /\ [][NextSameCx]_vars

\* Ten ellipses whose aspect ratios lie exactly on the line 1 + cx / 8, and
\* the places where an ellipse off that line is injected: at the left end, in
\* the middle, just past the right end and far to the right of the ten, with
\* aspect ratio 2 or 3 (the line has 1, 1.75, 2.375 and 4.75 there).  All of
\* these numbers are doubles.
CleanIndices == 1..10

CleanEllipses == [i \in CleanIndices |-> Ellipse(i, Dbl(I(i)), [rx |-> 8 + i, ry |-> 8])]

InjectedSpots == [cx : {0, 6, 11, 30}, rx : {16, 24}]

Injected(k, spot) ==
    Ellipse(Len(CleanEllipses) + k, Dbl(I(spot.cx)), [rx |-> spot.rx, ry |-> 8])

InitInjected ==
    /\ method = "iterative"
    /\ \E a, b \in InjectedSpots :
           /\ a.cx < b.cx \/ (a.cx = b.cx /\ a.rx < b.rx)
           /\ ellipses = CleanEllipses \o <<Injected(1, a), Injected(2, b)>>
    /\ options = NoOptions
    /\ Fresh

NextInjected == Calculate \/ IterativeTrim \/ IterativeReturn

SpecInjected == InitInjected /\ [][NextInjected]_vars

\* ------------------------------------------------------ autoDetectEllipses
\* The image is its width, its height and the set of positions
\* pos = y * width + x whose pixel isTarget holds of (luminance below the
\* threshold in 'dark' mode, above it otherwise).

\* neighbors = [curr - 1, curr + 1, curr - width, curr + width]
Neighbors(curr, width) == <<curr - 1, curr + 1, curr - width, curr + width>>

\* (curr % width === 0 && n === curr - 1) ||
\* (curr % width === width - 1 && n === curr + 1)
WrapsRow(curr, n, width) ==
    \/ curr % width = 0 /\ n = curr - 1
    \/ curr % width = width - 1 /\ n = curr + 1

\* Mutant of IsTarget: every pixel passes the brightness test.
IsTargetAlways(s, p) == TRUE

\* isTarget(pos * 4): the luminance of the pixel is on the chosen side of the
\* threshold.  The image is kept as the set of the positions where it is.
IsTarget(s, p) == p \in s.target

\* Mutant of Joins: a visited neighbour is pushed again.
JoinsVisited(s, curr, n, visited) ==
    /\ n >= 0
    /\ n < s.width * s.height
    /\ ~WrapsRow(curr, n, s.width)
    /\ IsTarget(s, n)

\* The neighbour n of curr is pushed: inside the image, not visited, not
\* across a row end, and a target.
Joins(s, curr, n, visited) ==
    /\ n >= 0
    /\ n < s.width * s.height
    /\ n \notin visited
    /\ ~WrapsRow(curr, n, s.width)
    /\ IsTarget(s, n)

Pushed(acc, n, joins) ==
    IF joins THEN [stack |-> Append(acc.stack, n), visited |-> acc.visited \cup {n}]
    ELSE acc

\* The loop over the four neighbours from the k-th on.
RECURSIVE PushNeighbors(_, _, _, _)
PushNeighbors(s, curr, k, acc) ==
    IF k > 4 THEN acc
    ELSE PushNeighbors(s, curr, k + 1,
                       Pushed(acc, Neighbors(curr, s.width)[k],
                              Joins(s, curr, Neighbors(curr, s.width)[k], acc.visited)))

\* m00 += 1; m10 += cx; m01 += cy; m11 += cx * cy; m20 += cx * cx;
\* m02 += cy * cy; count++
AddPixel(m, cx, cy) ==
    [m00 |-> m.m00 + 1, m10 |-> m.m10 + cx, m01 |-> m.m01 + cy, m11 |-> m.m11 + cx * cy,
     m20 |-> m.m20 + cx * cx, m02 |-> m.m02 + cy * cy, count |-> m.count + 1]

\* The moments as doubles (all of them integers below 2^31 here).
MomentsOf(m) ==
    [m00 |-> DInt(m.m00), m10 |-> DInt(m.m10), m01 |-> DInt(m.m01), m11 |-> DInt(m.m11),
     m20 |-> DInt(m.m20), m02 |-> DInt(m.m02)]

\* count > 5 && count < (width * height * 0.4) in utils, count > 5 in part_004
BlobSized(version, count, width, height) ==
    /\ count > 5
    /\ version = "utils" => QLess(DInt(count), QMul(DInt(width * height), Q(2, 5)))

\* rx >= minRadius && rx <= maxRadius && ry >= minRadius && ry <= maxRadius
RadiiInRange(e, minRadius, maxRadius) ==
    /\ QLeq(DInt(minRadius), e.rx) /\ QLeq(e.rx, DInt(maxRadius))
    /\ QLeq(DInt(minRadius), e.ry) /\ QLeq(e.ry, DInt(maxRadius))

\* Math.max(rx, ry) / Math.min(rx, ry) < 5, in utils only
Roundish(version, e) ==
    version = "utils" =>
        QLess(QDiv(QMax(e.rx, e.ry), IF QLess(e.ry, e.rx) THEN e.ry ELSE e.rx), DInt(5))

\* Whether the ellipse e of a blob of the right size is pushed on detected.
Detects(s, e) ==
    /\ RadiiInRange(e, s.minRadius, s.maxRadius)
    /\ Roundish(s.version, e)

\* detected.sort((a, b) => a.cy - b.cy) and row.sort((a, b) => a.cx - b.cx):
\* stable sorts, smallest first, by the field named.
SortedBy(seq, field) ==
    LET first(a, b) == \/ QLess(seq[a][field], seq[b][field])
                       \/ a < b /\ ~QLess(seq[b][field], seq[a][field])
        order == SortSeq([k \in Indices(seq) |-> k], first)
    IN  [k \in Indices(seq) |-> seq[order[k]]]

\* currentRow.reduce((sum, e) => sum + e.cy, 0) / currentRow.length
RowMeanCy(row) == QDiv(QSumTo([k \in Indices(row) |-> row[k].cy], Len(row)), DInt(Len(row)))

\* Mutant of JoinsRow: the bare row tolerance, without the factor 1.5.
JoinsRowBare(curr, row, rowTolerance) ==
    QLess(QAbs(QSub(curr.cy, RowMeanCy(row))), rowTolerance)

\* Math.abs(curr.cy - avgY) < rowTolerance * 1.5
JoinsRow(curr, row, rowTolerance) ==
    QLess(QAbs(QSub(curr.cy, RowMeanCy(row))), QMul(rowTolerance, Q(3, 2)))

\* The loop over detected[i], i >= 1 (here from the i-th of det on): rows is
\* the sequence of the rows closed so far, each sorted by cx, and row the
\* current one.
RECURSIVE GroupRows(_, _, _, _, _)
GroupRows(det, i, rows, row, rowTolerance) ==
    IF i > Len(det) THEN Append(rows, SortedBy(row, "cx"))
    ELSE IF JoinsRow(det[i], row, rowTolerance)
    THEN GroupRows(det, i + 1, rows, Append(row, det[i]), rowTolerance)
    ELSE GroupRows(det, i + 1, Append(rows, SortedBy(row, "cx")), <<det[i]>>, rowTolerance)

\* The rows of the reading-order sort of utils: rowTolerance =
\* Math.max(detected[0].ry, 10).  part_004 does not sort: one row, as detected.
RowsOfSorted(det) == GroupRows(det, 2, <<>>, <<det[1]>>, QMax(det[1].ry, DInt(10)))

ReadingRows(version, detected) ==
    IF detected = <<>> THEN <<>>
    ELSE IF version = "utils" THEN RowsOfSorted(SortedBy(detected, "cy"))
    ELSE <<detected>>

RECURSIVE Flat(_, _)
Flat(rows, k) == IF k = 0 THEN <<>> ELSE Flat(rows, k - 1) \o rows[k]

\* filterEllipsesByTrend gives the list back with the statuses of
\* calculateSectorCalibration(ellipses, 'linear'): all 'active' for fewer than
\* 3 ellipses, else 'active' or 'outlier' for each.  The aspect ratios that
\* decide depend on the cosine and sine of the angles; the model takes either
\* tag for each ellipse.
TrendStatuses(source, enableFiltering) ==
    IF enableFiltering /\ ~TooFew(Len(source))
    THEN [Indices(source) -> {"active", "outlier"}]
    ELSE {[i \in Indices(source) |-> "active"]}

\* rx: d.rx * 1.2 in utils, d.rx * 1.5 in part_004
RoiScale(version) == IF version = "utils" THEN Q(6, 5) ELSE Q(3, 2)

\* The ellipses of source whose status is 'active'.
RECURSIVE ActiveOnly(_, _, _)
ActiveOnly(source, status, n) ==
    IF n = 0 THEN <<>>
    ELSE IF status[n] = "active" THEN Append(ActiveOnly(source, status, n - 1), source[n])
    ELSE ActiveOnly(source, status, n - 1)

DetectionOfKept(version, kept, now) ==
    [ellipses |-> [i \in Indices(kept) |->
                      [kept[i] EXCEPT !.id = now + (i - 1), !.status = "active"]],
     rois     |-> [i \in Indices(kept) |->
                      [id |-> now + (i - 1), cx |-> kept[i].cx, cy |-> kept[i].cy,
                       rx |-> QMul(kept[i].rx, RoiScale(version)),
                       ry |-> QMul(kept[i].ry, RoiScale(version)),
                       rotation |-> kept[i].angle]]]

\* Mutant of Detection: a filter that drops the outliers.
DetectionOfInliers(version, source, status, now) ==
    DetectionOfKept(version, ActiveOnly(source, status, Len(source)), now)

\* finalSource.forEach((d, idx) => ...) with newId = Date.now() + idx
Detection(version, source, status, now) ==
    [ellipses |-> [i \in Indices(source) |->
                      [source[i] EXCEPT !.id = now + (i - 1), !.status = status[i]]],
     rois     |-> [i \in Indices(source) |->
                      [id |-> now + (i - 1), cx |-> source[i].cx, cy |-> source[i].cy,
                       rx |-> QMul(source[i].rx, RoiScale(version)),
                       ry |-> QMul(source[i].ry, RoiScale(version)),
                       rotation |-> source[i].angle]]]

\* The seeds the two for loops have yet to meet: unvisited targets at or
\* after pos.
Seeds(s) == {p \in s.pos..(s.width * s.height - 1) : p \notin s.visited /\ IsTarget(s, p)}

\* The for loops up to the next seed, where a fill begins.
ScanSeek ==
    /\ scan.pc = "scan"
    /\ Seeds(scan) # {}
    /\ \E p \in Seeds(scan) :
          /\ \A q \in Seeds(scan) : p <= q
          /\ scan' = [scan EXCEPT !.pc = "fill", !.pos = p, !.stack = <<p>>,
                                  !.visited = @ \cup {p}, !.m = ZeroMoments,
                                  !.seed = p, !.filled = {},
                                  !.pushes = Append(@, p)]
    /\ UNCHANGED besideImaging

\* pushes is the history of stack.push: every position pushed, in order.
ScanAfterPop(s, curr, acc) ==
    [s EXCEPT !.stack = acc.stack, !.visited = acc.visited,
              !.m = AddPixel(@, curr % s.width, curr \div s.width),
              !.filled = @ \cup {curr},
              !.pushes = @ \o SubSeq(acc.stack, Len(s.stack), Len(acc.stack))]

\* One iteration of while (stack.length > 0).
FillPop ==
    /\ scan.pc = "fill"
    /\ scan.stack # <<>>
    /\ scan' = ScanAfterPop(scan, scan.stack[Len(scan.stack)],
                            PushNeighbors(scan, scan.stack[Len(scan.stack)], 1,
                                          [stack   |-> SubSeq(scan.stack, 1, Len(scan.stack) - 1),
                                           visited |-> scan.visited]))
    /\ UNCHANGED besideImaging

\* The blob is done: found holds its ellipse when it passed the tests.
ScanAfterFill(s, found) ==
    [s EXCEPT !.pc = "scan", !.pos = s.seed + 1,
              !.detected = @ \o found,
              !.blobs = Append(@, [seed |-> s.seed, pixels |-> s.filled, count |-> s.m.count,
                                   found |-> found])]

\* After the while loop: the size test on the blob, then the radius and ratio
\* tests on its ellipse.
FillEnd ==
    /\ scan.pc = "fill"
    /\ scan.stack = <<>>
    /\ IF BlobSized(scan.version, scan.m.count, scan.width, scan.height)
       THEN \E e \in {calculateEllipseFromMoments(scan.version, 0, MomentsOf(scan.m),
                                                    DZero, DZero)} :
               scan' = ScanAfterFill(scan, IF Detects(scan, e) THEN <<e>> ELSE <<>>)
       ELSE scan' = ScanAfterFill(scan, <<>>)
    /\ UNCHANGED besideImaging

\* After the for loops: the reading-order sort, the trend filter and the ids.
ScanReturn ==
    /\ scan.pc = "scan"
    /\ Seeds(scan) = {}
    /\ \E rows \in {ReadingRows(scan.version, scan.detected)} :
       \E status \in TrendStatuses(Flat(rows, Len(rows)), scan.enableFiltering) :
          scan' = [scan EXCEPT !.pc = "done", !.rows = rows,
                               !.out = Detection(scan.version, Flat(rows, Len(rows)),
                                                 status, scan.now)]
    /\ UNCHANGED besideImaging

\* The images given to autoDetectEllipses.  The small ones: every image of at
\* most MaxPixels pixels, with every set of targets.
ImagesOfSize(size) ==
    {[width |-> size[1], height |-> size[2], target |-> t] :
        t \in SUBSET (0..(size[1] * size[2] - 1))}

SmallImages ==
    UNION {ImagesOfSize(size) :
              size \in {wh \in (1..MaxPixels) \X (1..MaxPixels) : wh[1] * wh[2] <= MaxPixels}}

\* The positions of the w by h rectangle of pixels with corner (x0, y0).
Rect(x0, y0, w, h, width) ==
    {y * width + x : x \in x0..(x0 + w - 1), y \in y0..(y0 + h - 1)}

\* The sheets: SheetWidth by SheetHeight images with up to five rectangular
\* blobs that do not touch, one per slot: a 3x2 dot, an 8x1 bar, a 10x1 rod or
\* a 5x5 disc at the slot's corner, or nothing.
SheetWidth == 22

SheetHeight == 30

Blob(corner, size) == Rect(corner[1], corner[2], size[1], size[2], SheetWidth)

Nothing == <<0, 0>>

Dot == <<3, 2>>

SheetTargets ==
    {Blob(<<12, 0>>, a) \cup Blob(<<0, 1>>, b) \cup Blob(<<0, 15>>, c) \cup Blob(<<12, 15>>, d)
        \cup Blob(<<12, 28>>, e) :
        a \in {Nothing, Dot, <<8, 1>>}, b \in {Nothing, Dot, <<10, 1>>},
        c \in {Nothing, Dot}, d \in {Nothing, Dot, <<5, 5>>}, e \in {Nothing, Dot}}

\* One more sheet: a single blob of exactly 40% of the pixels.
SlabTarget == Blob(<<0, 0>>, <<SheetWidth, (2 * SheetHeight) \div 5>>)

Sheets ==
    {[width |-> SheetWidth, height |-> SheetHeight, target |-> t] :
        t \in SheetTargets \cup {SlabTarget}}

\* minRadius and maxRadius
RadiusRanges == {<<1, 50>>, <<1, 5>>, <<2, 50>>}

\* What Date.now() gives during the call.
DetectionTime == 1000

Scanning(version, image, radii, enableFiltering) ==
    [NoScan EXCEPT !.pc = "scan", !.version = version, !.width = image.width,
                   !.height = image.height, !.target = image.target,
                   !.minRadius = radii[1], !.maxRadius = radii[2],
                   !.enableFiltering = enableFiltering, !.now = DetectionTime]

CalibrationIdle ==
    /\ ellipses = <<>>
    /\ method = "linear"
    /\ options = NoOptions
    /\ pc = "start"
    /\ ransac = NoRansac
    /\ trials = <<>>
    /\ iter = NoIter
    /\ inlierIndices = {}
    /\ out = NoOutput
    /\ trialLog = NoTrials
    /\ prev = NoOutput
    /\ calls = 1

InitScan ==
    /\ CalibrationIdle
    /\ DeskIdle
    /\ SamplingIdle
    /\ LatticeIdle
    /\ ViewingIdle
    /\ MappingIdle
    /\ ScoringIdle
    /\ \E version \in Versions :
          \/ \E image \in SmallImages :
                scan = Scanning(version, image, <<1, 50>>, FALSE)
          \/ \E image \in Sheets, radii \in RadiusRanges, enableFiltering \in BOOLEAN :
                scan = Scanning(version, image, radii, enableFiltering)

NextScan == ScanSeek \/ FillPop \/ FillEnd \/ ScanReturn

SpecScan == InitScan /\ [][NextScan]_vars

\* ------------------------------------------------------ the working set
\* The regions and the ellipses of the application (App, src/App.tsx and
\* src/unnamed/part_008) with its canvas (RoiCanvas, src/unnamed/part_001), by
\* their ids.  An id of 0 in activeRoiId stands for null and an imageSrc of 0
\* for no image; the clock starts at 1.  The calibration is null exactly when
\* there are fewer than 3 ellipses (updateCalibration sets both), and is left
\* out.  handleProcess and handleAutoDetect make an Image and return; their
\* work is done in its onload callback, later: pending holds the callbacks
\* that have yet to fire, each with the regions its handler saw.
IdsFrom(now, n) == [i \in 1..n |-> [id |-> now + (i - 1)]]

\* Date.now() goes on.
Tick ==
    /\ work.now < MaxClock
    /\ work' = [work EXCEPT !.now = @ + 1]
    /\ UNCHANGED besideDesk

\* handleImageUpload, when the file has been read: setImageSrc(...);
\* setRois([]); setEllipses([]); setActiveRoiId(null); setCalibration(null).
HandleImageUpload ==
    /\ work' = [work EXCEPT !.imageSrc = 1, !.rois = <<>>, !.ellipses = <<>>,
                            !.activeRoiId = 0, !.untouched = TRUE]
    /\ UNCHANGED besideDesk

\* handleAutoDetect: if (!imageSrc) return; img.onload = ...
HandleAutoDetect ==
    /\ work.imageSrc # 0
    /\ Len(work.pending) < MaxPending
    /\ work' = [work EXCEPT !.pending = Append(@, [kind |-> "detect", rois |-> work.rois]),
                            !.untouched = FALSE]
    /\ UNCHANGED besideDesk

\* The pending callbacks but the i-th.
Fired(pending, i) == SubSeq(pending, 1, i - 1) \o SubSeq(pending, i + 1, Len(pending))

\* The onload of handleAutoDetect: autoDetectEllipses finds n ellipses and
\* names them Date.now() + idx; setRois(generatedRois);
\* updateCalibration(detectedEllipses, ...) sets the ellipses.
AutoDetectOnLoad ==
    /\ \E i \in Indices(work.pending), n \in 0..MaxDetected :
          /\ work.pending[i].kind = "detect"
          /\ work' = [work EXCEPT !.ellipses = IdsFrom(work.now, n),
                                  !.rois = IdsFrom(work.now, n),
                                  !.pending = Fired(@, i)]
    /\ UNCHANGED besideDesk

\* handleMouseDown on a region: setActiveRoiId(roi.id).
HandleMouseDownOnRoi ==
    /\ \E i \in Indices(work.rois) : work' = [work EXCEPT !.activeRoiId = work.rois[i].id]
    /\ UNCHANGED besideDesk

\* handleMouseDown off every region: newId = Date.now();
\* setRois([...rois, newRoi]); setActiveRoiId(newId).
HandleMouseDownCreate ==
    /\ Len(work.rois) < MaxRegions
    /\ work' = [work EXCEPT !.rois = Append(@, [id |-> work.now]), !.activeRoiId = work.now,
                            !.untouched = FALSE]
    /\ UNCHANGED besideDesk

\* handleProcess: if (!imageSrc) return; img.onload = ..., with the regions
\* of this render in the callback's closure.
HandleProcess ==
    /\ work.imageSrc # 0
    /\ Len(work.pending) < MaxPending
    /\ work' = [work EXCEPT !.pending = Append(@, [kind |-> "process", rois |-> work.rois]),
                            !.untouched = FALSE]
    /\ UNCHANGED besideDesk

\* The onload of handleProcess:
\* updateCalibration(rois.map(roi => extractEllipseFromROI(...)), ...) sets
\* the ellipses, each with the id of its region.
ProcessOnLoad ==
    /\ \E i \in Indices(work.pending) :
          /\ work.pending[i].kind = "process"
          /\ work' = [work EXCEPT !.ellipses = work.pending[i].rois, !.pending = Fired(@, i)]
    /\ UNCHANGED besideDesk

WithoutId(seq, id) == SelectSeq(seq, LAMBDA r : r.id # id)

\* handleDeleteRoi(id) on the active region.
HandleDeleteRoi ==
    /\ \E i \in Indices(work.rois) : work.rois[i].id = work.activeRoiId
    /\ work' = [work EXCEPT !.rois = WithoutId(@, work.activeRoiId),
                            !.ellipses = WithoutId(@, work.activeRoiId),
                            !.activeRoiId = 0]
    /\ UNCHANGED besideDesk

\* handleClear: setRois([]); setEllipses([]); setActiveRoiId(null);
\* setCalibration(null).
HandleClear ==
    /\ work' = [work EXCEPT !.rois = <<>>, !.ellipses = <<>>, !.activeRoiId = 0,
                            !.untouched = TRUE]
    /\ UNCHANGED besideDesk

InitDesk ==
    /\ CalibrationIdle
    /\ ImagingIdle
    /\ SamplingIdle
    /\ LatticeIdle
    /\ ViewingIdle
    /\ MappingIdle
    /\ ScoringIdle
    /\ work = [NoWork EXCEPT !.now = 1]

NextDesk ==
    \/ Tick
    \/ HandleImageUpload
    \/ HandleAutoDetect
    \/ AutoDetectOnLoad
    \/ HandleMouseDownOnRoi
    \/ HandleMouseDownCreate
    \/ HandleProcess
    \/ ProcessOnLoad
    \/ HandleDeleteRoi
    \/ HandleClear

SpecDesk == InitDesk /\ [][NextDesk]_vars

\* ------------------------------------------------ extractEllipseFromROI
\* A region has its cx, cy, rx and ry in halves of a pixel here (cx = 3 is
\* 1.5) and the rotation 0, so that Math.cos(-roi.rotation) is 1 and
\* Math.sin(-roi.rotation) is 0: rx_coord is tx and ry_coord is ty.  A canvas
\* has gray pixels, r = g = b.
HalfOf(h) == QDiv(DInt(h), DInt(2))

\* Math.ceil(h / 2)
CeilHalf(h) == -((-h) \div 2)

\* startX = Math.floor(Math.max(0, roi.cx - maxRadius)),
\* endX = Math.ceil(Math.min(ctx.canvas.width, roi.cx + maxRadius)), the same
\* for Y; width = endX - startX, height = endY - startY.
WindowOf(startX, startY, endX, endY) ==
    [startX |-> startX, startY |-> startY, width |-> endX - startX, height |-> endY - startY]

WindowAround(roi, canvas, maxRadius) ==
    WindowOf(Max(0, roi.cx - maxRadius) \div 2, Max(0, roi.cy - maxRadius) \div 2,
             CeilHalf(Min(2 * canvas.width, roi.cx + maxRadius)),
             CeilHalf(Min(2 * canvas.height, roi.cy + maxRadius)))

Window(roi, canvas) == WindowAround(roi, canvas, Max(roi.rx, roi.ry))

\* { id: roi.id, cx: roi.cx, cy: roi.cy, rx: roi.rx, ry: roi.ry,
\*   angle: roi.rotation, status: 'active' }
Unchanged(roi) ==
    [id |-> roi.id, cx |-> HalfOf(roi.cx), cy |-> HalfOf(roi.cy), rx |-> HalfOf(roi.rx),
     ry |-> HalfOf(roi.ry), angle |-> Radians(DZero), status |-> "active"]

\* 0.299 * r + 0.587 * g + 0.114 * b
getLuminance(r, g, b) ==
    QAdd(QAdd(QMul(Q(299, 1000), DInt(r)), QMul(Q(587, 1000), DInt(g))),
         QMul(Q(114, 1000), DInt(b)))

\* val = getLuminance(...); if (mode === 'dark') val = 255 - val
ValueOf(mode, lum) == IF mode = "dark" THEN QSub(DInt(255), lum) ELSE lum

ValueAt(x, px, py) ==
    Only({ValueOf(x.mode, lum) :
             lum \in {getLuminance(x.canvas.gray[py * x.canvas.width + px + 1],
                                   x.canvas.gray[py * x.canvas.width + px + 1],
                                   x.canvas.gray[py * x.canvas.width + px + 1])}})

\* The bound on the ellipse test: > 1 in utils, > 1.1 in part_004.
Rim(version) == IF version = "utils" THEN DInt(1) ELSE Q(11, 10)

\* (rx_coord*rx_coord)/(roi.rx*roi.rx) + (ry_coord*ry_coord)/(roi.ry*roi.ry)
Spread(tx, ty, rx, ry) == QAdd(QDiv(QMul(tx, tx), QMul(rx, rx)), QDiv(QMul(ty, ty), QMul(ry, ry)))

\* The pixel (px, py) is skipped by the ellipse test.
Outside(x, px, py) ==
    QLess(Rim(x.version),
          Spread(QSub(DInt(px), HalfOf(x.roi.cx)), QSub(DInt(py), HalfOf(x.roi.cy)),
                 HalfOf(x.roi.rx), HalfOf(x.roi.ry)))

\* The loops over row and col, from the k-th pixel of the window on:
\* pixels.push({ x: col, y: row, val }).
RECURSIVE Gathered(_, _, _, _)
GatheredWith(x, win, k, acc, col, row) ==
    Gathered(x, win, k + 1,
             IF Outside(x, win.startX + col, win.startY + row) THEN acc
             ELSE Append(acc, [x |-> col, y |-> row,
                               val |-> ValueAt(x, win.startX + col, win.startY + row)]))

Gathered(x, win, k, acc) ==
    IF k > win.width * win.height THEN acc
    ELSE Only({GatheredWith(x, win, k, soFar, (k - 1) % win.width, (k - 1) \div win.width) :
                  soFar \in {acc}})

\* if (pixels.length === 0) return in utils, if (pixels.length < 3) return in
\* part_004
TooFewPixels(version, n) == IF version = "utils" THEN n = 0 ELSE n < 3

\* minVal and maxVal: from 255 down and from 0 up.
MinVal(pixels) ==
    CHOOSE v \in {DInt(255)} \cup {pixels[k].val : k \in Indices(pixels)} :
        \A k \in Indices(pixels) : QLeq(v, pixels[k].val)

MaxVal(pixels) ==
    CHOOSE v \in {DZero} \cup {pixels[k].val : k \in Indices(pixels)} :
        \A k \in Indices(pixels) : QLeq(pixels[k].val, v)

\* range > 10 ? (minVal + range * 0.5) : minVal
HalfWay(minVal, range) ==
    IF QLess(DInt(10), range) THEN QAdd(minVal, QMul(range, Q(1, 2))) ELSE minVal

\* In part_004 a thresholdOverride above 0 is the threshold (0 stands for
\* undefined); utils has no such argument.
ThresholdOf(x, minVal, maxVal) ==
    IF x.version = "part_004" /\ x.thresholdOverride > 0 THEN DInt(x.thresholdOverride)
    ELSE HalfWay(minVal, QSub(maxVal, minVal))

NoWeight ==
    [m00 |-> DZero, m10 |-> DZero, m01 |-> DZero, m11 |-> DZero, m20 |-> DZero,
     m02 |-> DZero, validPixels |-> 0]

\* m00 += weight; m10 += weight * p.x; m01 += weight * p.y;
\* m11 += weight * p.x * p.y; m20 += weight * p.x * p.x; m02 += weight * p.y * p.y
Weighed(m, weight, wx, wy, px, py) ==
    [m00 |-> QAdd(m.m00, weight), m10 |-> QAdd(m.m10, wx), m01 |-> QAdd(m.m01, wy),
     m11 |-> QAdd(m.m11, QMul(wx, py)), m20 |-> QAdd(m.m20, QMul(wx, px)),
     m02 |-> QAdd(m.m02, QMul(wy, py)), validPixels |-> m.validPixels + 1]

WeighedBy(m, weight, px, py) ==
    Only({Weighed(m, weight, wx, wy, px, py) :
             wx \in {QMul(weight, px)}, wy \in {QMul(weight, py)}})

\* if (p.val >= threshold) { weight = p.val - threshold + 1; ... }, and in the
\* second loop of utils weight = p.val for every pixel.
WeighedPixel(m, p, threshold, byValue) ==
    IF byValue THEN WeighedBy(m, p.val, DInt(p.x), DInt(p.y))
    ELSE IF QLeq(threshold, p.val)
    THEN WeighedBy(m, QAdd(QSub(p.val, threshold), DInt(1)), DInt(p.x), DInt(p.y))
    ELSE m

\* for (const p of pixels), from the k-th on.
RECURSIVE SumMoments(_, _, _, _, _)
SumMoments(pixels, k, m, threshold, byValue) ==
    IF k > Len(pixels) THEN m
    ELSE Only({SumMoments(pixels, k + 1, next, threshold, byValue) :
                  next \in {WeighedPixel(m, pixels[k], threshold, byValue)}})

\* if (m00 === 0 || validPixels < 3): the moments again, each pixel weighed by
\* its value (utils only).
Fallback(version, pixels, m) ==
    IF version = "utils" /\ (QEq(m.m00, DZero) \/ m.validPixels < 3)
    THEN SumMoments(pixels, 1, NoWeight, DZero, TRUE)
    ELSE m

MomentsOfPixels(x, threshold) ==
    Only({Fallback(x.version, x.pixels, m) :
             m \in {SumMoments(x.pixels, 1, NoWeight, threshold, FALSE)}})

\* The window and the pixels in the region; the two early returns.
ExtractGather ==
    /\ extract.pc = "called"
    /\ \E win \in {Window(extract.roi, extract.canvas)} :
          IF win.width <= 0 \/ win.height <= 0
          THEN extract' = [extract EXCEPT !.pc = "done", !.window = win,
                                          !.out = <<Unchanged(extract.roi)>>]
          ELSE \E pixels \in {Gathered(extract, win, 1, <<>>)} :
                  IF TooFewPixels(extract.version, Len(pixels))
                  THEN extract' = [extract EXCEPT !.pc = "done", !.window = win,
                                                  !.pixels = pixels,
                                                  !.out = <<Unchanged(extract.roi)>>]
                  ELSE extract' = [extract EXCEPT !.pc = "gathered", !.window = win,
                                                  !.pixels = pixels]
    /\ UNCHANGED besideSampling

\* The threshold, the moments and the ellipse of the moments.
ExtractReturn ==
    /\ extract.pc = "gathered"
    /\ \E m \in {MomentsOfPixels(extract, ThresholdOf(extract, MinVal(extract.pixels),
                                                        MaxVal(extract.pixels)))} :
          extract' = [extract EXCEPT
                         !.pc = "done", !.m = <<m>>,
                         !.out = <<calculateEllipseFromMoments(
                                       extract.version, extract.roi.id, m,
                                       DInt(extract.window.startX),
                                       DInt(extract.window.startY))>>]
    /\ UNCHANGED besideSampling

\* The calls: 2 by 2 canvases of black and white pixels; a region over all of
\* the canvas, a flat one over it, a small one on its first pixel, a small one
\* left of it and one right of it.
Canvases == {[width |-> 2, height |-> 2, gray |-> g] : g \in [1..4 -> {0, 255}]}

RegionId == 7

Regions ==
    {[id |-> RegionId, cx |-> 1, cy |-> 1, rx |-> 4, ry |-> 4],
     [id |-> RegionId, cx |-> 1, cy |-> 1, rx |-> 4, ry |-> 1],
     [id |-> RegionId, cx |-> 0, cy |-> 0, rx |-> 1, ry |-> 1],
     [id |-> RegionId, cx |-> -10, cy |-> 0, rx |-> 1, ry |-> 1],
     [id |-> RegionId, cx |-> 12, cy |-> 1, rx |-> 4, ry |-> 2]}

\* thresholdOverride: undefined, or the 128 that the evaluation lab starts with.
Overrides(version) == IF version = "utils" THEN {0} ELSE {0, 128}

InitExtract ==
    /\ CalibrationIdle
    /\ ImagingIdle
    /\ DeskIdle
    /\ LatticeIdle
    /\ ViewingIdle
    /\ MappingIdle
    /\ ScoringIdle
    /\ \E version \in Versions, roi \in Regions, mode \in {"dark", "light"},
          canvas \in Canvases :
          \E thresholdOverride \in Overrides(version) :
             extract = [NoExtract EXCEPT !.pc = "called", !.version = version, !.roi = roi,
                                         !.mode = mode, !.canvas = canvas,
                                         !.thresholdOverride = thresholdOverride]

NextExtract == ExtractGather \/ ExtractReturn

SpecExtract == InitExtract /\ [][NextExtract]_vars

\* ---------------------------------------------------- findGridFromBasis
\* The ellipses of a call are [id, cx, cy] with whole cx and cy; the basis is
\* three positions in the list (origin, xRef, yRef), as the evaluation lab
\* resolves it from the ids it holds.
RECURSIVE BValue(_)
BValue(a) == IF a = <<>> THEN 0 ELSE a[1] + Base * BValue(Tail(a))

\* Math.round of the double s * 2y / 2, where halves = floor(2y) and exact
\* says that 2y is whole: floor(y + 1/2), and -ceil(y - 1/2) below zero.
RoundOfHalves(s, halves, exact) ==
    IF s = 1 THEN (halves + 1) \div 2
    ELSE -(IF exact THEN halves \div 2 ELSE (halves + 1) \div 2)

RoundOfScaled(x, t, down) == RoundOfHalves(x.s, BValue(t), BShl(t, down) = x.m)

\* Math.round(x) of a finite double, as an integer.
MathRound(x) ==
    IF x.k = "zero" THEN 0
    ELSE IF x.e >= 0 THEN x.s * BValue(BShl(x.m, x.e))
    ELSE Only({RoundOfScaled(x, t, -x.e - 1) : t \in {BShr(x.m, -x.e - 1)}})

\* ux, uy, vx, vy: xRef - origin and yRef - origin.
BasisOf(origin, xRef, yRef) ==
    [ux |-> QSub(DInt(xRef.cx), DInt(origin.cx)), uy |-> QSub(DInt(xRef.cy), DInt(origin.cy)),
     vx |-> QSub(DInt(yRef.cx), DInt(origin.cx)), vy |-> QSub(DInt(yRef.cy), DInt(origin.cy))]

\* det = ux * vy - uy * vx
Det(b) == QSub(QMul(b.ux, b.vy), QMul(b.uy, b.vx))

\* A test that lets every basis through.
NearZeroNever(det) == FALSE

\* Math.abs(det) < 1e-6
NearZero(det) == QLess(QAbs(det), Q(1, 1000000))

\* spacingScale = (Math.sqrt(ux*ux + uy*uy) + Math.sqrt(vx*vx + vy*vy)) / 2
SpacingScale(b) ==
    QDiv(QAdd(DSqrt(QAdd(QMul(b.ux, b.ux), QMul(b.uy, b.uy))),
              DSqrt(QAdd(QMul(b.vx, b.vx), QMul(b.vy, b.vy)))), DInt(2))

\* distErr = Math.sqrt((dx - idealX)**2 + (dy - idealY)**2)
DistErr(ex, ey) == DSqrt(QAdd(QMul(ex, ex), QMul(ey, ey)))

\* The test with <= for <.
PlacedAtInclusive(b, dx, dy, i, j, tolerance) ==
    [I |-> i, J |-> j,
     put |-> QLeq(DistErr(QSub(dx, QAdd(QMul(DInt(i), b.ux), QMul(DInt(j), b.vx))),
                          QSub(dy, QAdd(QMul(DInt(i), b.uy), QMul(DInt(j), b.vy)))),
                  tolerance)]

\* idealX = I * ux + J * vx, idealY = I * uy + J * vy; the ellipse is put in
\* the maps if (distErr < spacingScale * 0.4).
PlacedAt(b, dx, dy, i, j, tolerance) ==
    [I |-> i, J |-> j,
     put |-> QLess(DistErr(QSub(dx, QAdd(QMul(DInt(i), b.ux), QMul(DInt(j), b.vx))),
                           QSub(dy, QAdd(QMul(DInt(i), b.uy), QMul(DInt(j), b.vy)))),
                   tolerance)]

\* iVal = (vy * dx - vx * dy) / det, jVal = (-uy * dx + ux * dy) / det,
\* I = Math.round(iVal), J = Math.round(jVal)
PlacedFrom(b, det, dx, dy, tolerance) ==
    Only({PlacedAt(b, dx, dy, MathRound(iVal), MathRound(jVal), tolerance) :
             iVal \in {QDiv(QSub(QMul(b.vy, dx), QMul(b.vx, dy)), det)},
             jVal \in {QDiv(QAdd(QMul(QNeg(b.uy), dx), QMul(b.ux, dy)), det)}})

\* The body of ellipses.forEach for the ellipse e.
Placed(b, det, origin, e, tolerance) ==
    Only({PlacedFrom(b, det, dx, dy, tolerance) :
             dx \in {QSub(DInt(e.cx), DInt(origin.cx))},
             dy \in {QSub(DInt(e.cy), DInt(origin.cy))}})

PlacedAll(ells, b, det, origin, tolerance) ==
    [k \in Indices(ells) |-> Placed(b, det, origin, ells[k], tolerance)]

\* The keys of rowsMap (by "J") or colsMap (by "I") in the order of their
\* first insertion, over the first n ellipses.
RECURSIVE KeysOf(_, _, _)
KeysOf(placed, by, n) ==
    IF n = 0 THEN <<>>
    ELSE LET before == KeysOf(placed, by, n - 1)
         IN  IF placed[n].put /\ \A k \in Indices(before) : before[k] # placed[n][by]
             THEN Append(before, placed[n][by])
             ELSE before

\* The value of a map under a key: the ellipses pushed, in the list's order
\* (by their positions in the list).
RECURSIVE PointsOf(_, _, _, _)
PointsOf(placed, by, key, n) ==
    IF n = 0 THEN <<>>
    ELSE IF placed[n].put /\ placed[n][by] = key
    THEN Append(PointsOf(placed, by, key, n - 1), n)
    ELSE PointsOf(placed, by, key, n - 1)

\* Array.from(map.values())
ValuesOf(placed, by) ==
    [k \in Indices(KeysOf(placed, by, Len(placed))) |->
        PointsOf(placed, by, KeysOf(placed, by, Len(placed))[k], Len(placed))]

\* .filter(r => r.points.length > 1)
RECURSIVE Reported(_)
Reported(groups) ==
    IF groups = <<>> THEN <<>>
    ELSE IF Len(Head(groups)) > 1 THEN <<Head(groups)>> \o Reported(Tail(groups))
    ELSE Reported(Tail(groups))

\* findGridFromBasis: <<>> for null, or the rows and the columns (each by its
\* points; the orientation and the avg of a row are left out), with the
\* record of forEach for every ellipse.
GridOfPlaced(placed) ==
    [placed |-> placed,
     gridInfo |-> <<[rows |-> Reported(ValuesOf(placed, "J")),
                     cols |-> Reported(ValuesOf(placed, "I"))]>>]

GridOfBasis(ells, b, det, origin) ==
    IF NearZero(det) THEN [placed |-> <<>>, gridInfo |-> <<>>]
    ELSE Only({GridOfPlaced(placed) :
                  placed \in {PlacedAll(ells, b, det, origin,
                                        QMul(SpacingScale(b), Q(2, 5)))}})

findGridFromBasis(ells, basis) ==
    Only({GridOfBasis(ells, b, Det(b), ells[basis[1]]) :
             b \in {BasisOf(ells[basis[1]], ells[basis[2]], ells[basis[3]])}})

\* rows.reduce((maxI, r, i) => r.points.length > rows[maxI].points.length ? i : maxI, 0)
RECURSIVE BestRowIdx(_, _)
BestRowIdx(rows, n) ==
    IF n = 1 THEN 1
    ELSE LET maxI == BestRowIdx(rows, n - 1)
         IN  IF Len(rows[n]) > Len(rows[maxI]) THEN n ELSE maxI

\* analyzeTransformedSpots up to the grid detection: fewer than 2 ellipses
\* return at once, with no grid; else gridInfo = findGridFromBasis(...).
AnalyzeResolve ==
    /\ grid.pc = "called"
    /\ IF Len(grid.ellipses) < 2
       THEN grid' = [grid EXCEPT !.pc = "done", !.out = NoGrid]
       ELSE \E found \in {findGridFromBasis(grid.ellipses, grid.basis)} :
               grid' = [grid EXCEPT !.pc = "resolved", !.placed = found.placed,
                                    !.gridInfo = found.gridInfo]
    /\ UNCHANGED besideLattice

\* The lines of the grid: a line is kept as the points of its row or column
\* (its end points are left out), bestFitLine as the row it is drawn for.
GridOf(info) ==
    [grid |-> <<[rows |-> info.rows, cols |-> info.cols]>>,
     bestFitLine |-> IF Len(info.rows) > 0
                     THEN <<info.rows[BestRowIdx(info.rows, Len(info.rows))]>>
                     ELSE <<>>]

\* if (gridInfo && (gridInfo.rows.length > 0 || gridInfo.cols.length > 0))
AnalyzeReport ==
    /\ grid.pc = "resolved"
    /\ IF grid.gridInfo # <<>>
          /\ (Len(grid.gridInfo[1].rows) > 0 \/ Len(grid.gridInfo[1].cols) > 0)
       THEN grid' = [grid EXCEPT !.pc = "done", !.out = GridOf(grid.gridInfo[1])]
       ELSE grid' = [grid EXCEPT !.pc = "done", !.out = NoGrid]
    /\ UNCHANGED besideLattice

\* The lists of a call: centres on whole pixels.  A square lattice of step 5
\* with one centre off its node by 1 and one by 2 (the tolerance for that
\* basis); a slanted lattice, step (3, 4) and (-8, 6), with one centre off by
\* 3; three centres on a line and one off it; a single ellipse.
Centres ==
    {<<<<0, 0>>, <<5, 0>>, <<0, 5>>, <<5, 6>>, <<10, 2>>>>,
     <<<<10, 0>>, <<13, 4>>, <<2, 6>>, <<5, 13>>, <<16, 8>>>>,
     <<<<0, 0>>, <<2, 2>>, <<4, 4>>, <<4, 0>>>>,
     <<<<3, 3>>>>}

EllipsesAt(centres) ==
    [k \in Indices(centres) |-> [id |-> k, cx |-> centres[k][1], cy |-> centres[k][2]]]

InitGrid ==
    /\ CalibrationIdle
    /\ ImagingIdle
    /\ DeskIdle
    /\ SamplingIdle
    /\ ViewingIdle
    /\ MappingIdle
    /\ ScoringIdle
    /\ \E centres \in Centres :
          \E basis \in [1..3 -> Indices(centres)] :
             grid = [NoAnalysis EXCEPT !.pc = "called", !.ellipses = EllipsesAt(centres),
                                       !.basis = basis]

NextGrid == AnalyzeResolve \/ AnalyzeReport

SpecGrid == InitGrid /\ [][NextGrid]_vars

\* ------------------------------------------------------- the sector view
\* The effect of SectorViewModal (and of EvaluationLab) that makes the sector
\* image: it runs when the props change, starts generateSectorImage and
\* returns; the promise resolves later (setResultSrc(url), then an Image is
\* loaded from the url) and the Image's onload fires later still
\* (imageRef.current = img, setLoading(false), the analysis).  The props are
\* numbered: 0 for props that fail the effect's test, 1.. for valid ones.

\* useEffect(..., [isOpen, imageSrc, calibration]) on a change of the props.
ViewEffect ==
    /\ view.effects < MaxEffects
    /\ \E inputs \in 0..MaxInputs :
          /\ inputs # view.inputs
          /\ IF inputs # 0
             THEN view' = [view EXCEPT !.inputs = inputs, !.loading = TRUE, !.error = FALSE,
                                       !.effects = @ + 1,
                                       !.requests = Append(@, [of |-> inputs,
                                                               stage |-> "generating"])]
             ELSE view' = [view EXCEPT !.inputs = 0, !.resultSrc = 0, !.effects = @ + 1]
    /\ UNCHANGED besideViewing

\* .then(url => { setResultSrc(url); const img = new Image(); img.src = url;
\* img.onload = ... }) of a computation under way.
ViewResolved ==
    /\ \E i \in Indices(view.requests) :
          /\ view.requests[i].stage = "generating"
          /\ view' = [view EXCEPT !.resultSrc = view.requests[i].of,
                                  !.requests[i].stage = "loading"]
    /\ UNCHANGED besideViewing

\* .catch(err => { setError(...); setLoading(false); })
ViewRejected ==
    /\ \E i \in Indices(view.requests) :
          /\ view.requests[i].stage = "generating"
          /\ view' = [view EXCEPT !.error = TRUE, !.loading = FALSE,
                                  !.requests = Fired(@, i)]
    /\ UNCHANGED besideViewing

\* img.onload = () => { imageRef.current = img; setLoading(false);
\* runAnalysis(img, ...) }
ViewLoaded ==
    /\ \E i \in Indices(view.requests) :
          /\ view.requests[i].stage = "loading"
          /\ view' = [view EXCEPT !.image = view.requests[i].of, !.loading = FALSE,
                                  !.requests = Fired(@, i)]
    /\ UNCHANGED besideViewing

InitView ==
    /\ CalibrationIdle
    /\ ImagingIdle
    /\ DeskIdle
    /\ SamplingIdle
    /\ LatticeIdle
    /\ MappingIdle
    /\ ScoringIdle
    /\ view = NoView

NextView == ViewEffect \/ ViewResolved \/ ViewRejected \/ ViewLoaded

SpecView == InitView /\ [][NextView]_vars

\* ---------------------------------------------------- generateSectorImage
\* The pixel loop of generateSectorImage.  The source image is srcW by srcH
\* with four channels a pixel; channel i of its buffer holds i + 1, so that a
\* copied value names the place it was read from.  The size of the output
\* canvas and the offsets offU, offV come from Math.cos and Math.sin of the
\* corner angles and are not worked out: the loop body is applied to sampled
\* positions (u, v) = (px - offU, py - offV).  Math.atan2(v, u) is not worked
\* out either: theta is any of the sampled angles that has the sign of v (and
\* is 0 on the positive u axis), which covers what atan2 returns.  The loop
\* body itself is computed in doubles as the code computes it.

\* Most output pixels treated in one modelled call.
MaxSamples == 2

SectorWidths == {1, 3}

SectorHeights == {1, 2}

\* calibration.slope and calibration.rotationCenterX
SectorSlopes == {Q(-1, 2), I(0), I(1)}

SectorCentres == {Q(-1, 2), I(1)}

SampleU == {I(-1), Q(1, 2), I(2), I(3)}

SampleV == {I(-1), I(0), Q(1, 2)}

SampleAngles == {Q(-1, 2), Q(-1, 4), I(0), Q(1, 4), Q(25, 8)}

\* Whether theta can be Math.atan2(v, u) as far as signs go.
AngleFits(theta, u, v) ==
    IF v.n = 0 THEN (IF u.n >= 0 THEN theta.n = 0 ELSE theta = Q(25, 8))
    ELSE Sign(theta.n) = Sign(v.n)

\* srcData.data of a width by height image: channel i holds i + 1.
SourceData(width, height) == [i \in 1..(4 * width * height) |-> i]

\* data[i] of a Uint8ClampedArray; a value read past its end is undefined and
\* is stored as 0.
DataAt(data, i) == IF i >= 0 /\ i < Len(data) THEN data[i + 1] ELSE 0

\* Math.floor(x) of a finite double x >= 0, as an integer.
MathFloor(x) ==
    IF x.k = "zero" THEN 0
    ELSE IF x.e >= 0 THEN BValue(BShl(x.m, x.e))
    ELSE BValue(BShr(x.m, -x.e))

\* An output pixel nothing was written to: createImageData gives zeros.
Transparent == <<0, 0, 0, 0>>

\* const rMin = 0 - rotationCenterX
RMin(s) == QSub(DInt(0), Dbl(s.rotationCenterX))

\* const rMax = img.width - rotationCenterX
RMax(s) == QSub(DInt(s.srcW), Dbl(s.rotationCenterX))

\* const slope = Math.abs(calibration.slope)
AbsSlope(s) == QAbs(Dbl(s.slope))

\* const totalAngle = slope * img.height
TotalAngle(s) == QMul(AbsSlope(s), DInt(s.srcH))

\* r >= rMin && r <= rMax && theta >= -totalAngle/2 && theta <= totalAngle/2
InSector(s, r, theta) ==
    /\ QLeq(RMin(s), r)
    /\ QLeq(r, RMax(s))
    /\ QLeq(QDiv(QNeg(TotalAngle(s)), DInt(2)), theta)
    /\ QLeq(theta, QDiv(TotalAngle(s), DInt(2)))

\* A test of the source bounds that lets srcX = srcW through.
InSourceInclusive(s, srcX, srcY) ==
    /\ QLeq(DInt(0), srcX)
    /\ QLeq(srcX, DInt(s.srcW))
    /\ QLeq(DInt(0), srcY)
    /\ QLess(srcY, DInt(s.srcH))

\* srcX >= 0 && srcX < srcW && srcY >= 0 && srcY < srcH
InSource(s, srcX, srcY) ==
    /\ QLeq(DInt(0), srcX)
    /\ QLess(srcX, DInt(s.srcW))
    /\ QLeq(DInt(0), srcY)
    /\ QLess(srcY, DInt(s.srcH))

\* The copy of one source pixel: srcIdx = (iy * srcW + ix) * 4, three channels
\* copied and alpha set to 255.
Copied(s, u, v, theta, srcIdx) ==
    [u |-> u, v |-> v, theta |-> theta,
     out |-> <<DataAt(s.data, srcIdx), DataAt(s.data, srcIdx + 1),
               DataAt(s.data, srcIdx + 2), 255>>,
     reads |-> {srcIdx, srcIdx + 1, srcIdx + 2}]

Skipped(u, v, theta) ==
    [u |-> u, v |-> v, theta |-> theta, out |-> Transparent, reads |-> {}]

\* The body of the loop for the output pixel at (u, v), given srcX and srcY.
SampledAt(s, u, v, theta, srcX, srcY) ==
    IF InSource(s, srcX, srcY)
    THEN Copied(s, u, v, theta, (MathFloor(srcY) * s.srcW + MathFloor(srcX)) * 4)
    ELSE Skipped(u, v, theta)

\* const srcX = r + rotationCenterX; const srcY = (theta / slope) + (srcH / 2)
SampledFrom(s, u, v, theta, r) ==
    IF InSector(s, r, Dbl(theta))
    THEN Only({SampledAt(s, u, v, theta, p[1], p[2]) :
                  p \in {<<QAdd(r, Dbl(s.rotationCenterX)),
                           QAdd(QDiv(Dbl(theta), AbsSlope(s)),
                                QDiv(DInt(s.srcH), DInt(2)))>>}})
    ELSE Skipped(u, v, theta)

\* const r = Math.sqrt(u*u + v*v)
Sampled(s, u, v, theta) ==
    Only({SampledFrom(s, u, v, theta, r) :
             r \in {DSqrt(QAdd(QMul(Dbl(u), Dbl(u)), QMul(Dbl(v), Dbl(v))))}})

\* img.onload: the source is drawn and read, the bounds are worked out.
SectorLoad ==
    /\ sector.pc = "called"
    /\ sector' = [sector EXCEPT !.pc = "loop", !.data = SourceData(sector.srcW, sector.srcH)]
    /\ UNCHANGED besideMapping

\* One pass of the body of the pixel loop.
SectorPixel ==
    /\ sector.pc = "loop"
    /\ Len(sector.pixels) < MaxSamples
    /\ \E u \in SampleU, v \in SampleV, theta \in SampleAngles :
          /\ AngleFits(theta, u, v)
          /\ sector' = [sector EXCEPT !.pixels = Append(@, Sampled(sector, u, v, theta))]
    /\ UNCHANGED besideMapping

\* outCtx.putImageData(outImageData, 0, 0); resolve(outCanvas.toDataURL())
SectorResolve ==
    /\ sector.pc = "loop"
    /\ sector' = [sector EXCEPT !.pc = "resolved"]
    /\ UNCHANGED besideMapping

InitSector ==
    /\ CalibrationIdle
    /\ ImagingIdle
    /\ DeskIdle
    /\ SamplingIdle
    /\ LatticeIdle
    /\ ViewingIdle
    /\ ScoringIdle
    /\ \E width \in SectorWidths, height \in SectorHeights, slope \in SectorSlopes,
          centre \in SectorCentres :
          sector = [NoSector EXCEPT !.pc = "called", !.srcW = width, !.srcH = height,
                                    !.slope = slope, !.rotationCenterX = centre]

NextSector == SectorLoad \/ SectorPixel \/ SectorResolve

SpecSector == InitSector /\ [][NextSector]_vars

\* ------------------------------------- analyzeTransformedSpots: the metrics
\* A call of analyzeTransformedSpots (part_004) on given ellipses
\* (options.inputEllipses), with a grid basis, with a forced orientation or
\* with neither (the exhaustive search of findOptimalGrid).  Centres and
\* semi-axes are whole numbers; everything else is computed in doubles.
\*
\* Angles.  An orientation is kept as the direction <<dx, dy>> it points in
\* (whole numbers without a common factor): Math.atan2 is not worked out.
\* The angle 0 is <<1, 0>>, the literal Math.PI / 2 is <<0, 1>>, and an angle
\* brought into [-PI/2, PI/2) has dx > 0 or is <<0, -1>>.  Two angles of one
\* direction are one candidate here, where the program may hold two that
\* differ in their last bit.  Math.cos and Math.sin of an orientation are
\* dx / sqrt(dx*dx + dy*dy) and dy / sqrt(dx*dx + dy*dy) in doubles, which is
\* what the library returns up to its last bits, and the values the library
\* returns on the axes: cos(0) = 1, sin(0) = 0, sin(PI/2) = 1 and the two
\* below.

\* Math.cos(Math.PI / 2) = Math.cos(-Math.PI / 2) = 6.123233995736766e-17
CosHalfPi == DPack(1, <<23559, 26152, 6296, 141>>, -106)

\* Math.sin(Math.PI) = 1.2246467991473532e-16
SinPi == DPack(1, <<23559, 26152, 6296, 141>>, -105)

Hypot(dir) == DSqrt(DInt(dir[1] * dir[1] + dir[2] * dir[2]))

\* Math.cos(orientation)
CosOf(dir) ==
    IF dir[2] = 0 THEN DInt(Sign(dir[1]))
    ELSE IF dir[1] = 0 THEN CosHalfPi
    ELSE DDiv(DInt(dir[1]), Hypot(dir))

\* Math.sin(orientation)
SinOf(dir) ==
    IF dir[2] = 0 THEN (IF dir[1] > 0 THEN DZero ELSE SinPi)
    ELSE IF dir[1] = 0 THEN DInt(Sign(dir[2]))
    ELSE DDiv(DInt(dir[2]), Hypot(dir))

\* The direction of Math.atan2(dy, dx), for dx and dy not both 0.
Direction(dx, dy) == <<dx \div Gcd(Abs(dx), Abs(dy)), dy \div Gcd(Abs(dx), Abs(dy))>>

\* if (angle < -Math.PI/2) angle += Math.PI; if (angle >= Math.PI/2) angle -= Math.PI
HalfTurned(dir) ==
    IF dir[1] < 0 \/ (dir[1] = 0 /\ dir[2] > 0) THEN <<-dir[1], -dir[2]>> ELSE dir

\* let perp = angle + Math.PI/2; if (perp >= Math.PI/2) perp -= Math.PI
Perp(dir) == IF dir[2] >= 0 THEN <<dir[2], -dir[1]>> ELSE <<-dir[2], dir[1]>>

\* angles.add(a): a Set keeps the order of the first insertions.
Added(angles, a) ==
    IF \E k \in Indices(angles) : angles[k] = a THEN angles ELSE Append(angles, a)

\* Math.exp(x) for a double x: the sum of the first ExpTerms terms of the
\* series at x / 2^ExpHalvings, squared ExpHalvings times, every operation
\* rounded; exp(0) = 1 exactly.  For the arguments met here (-20 <= x <= 0)
\* this is Math.exp(x) up to its last bits.
ExpTerms == 14

ExpHalvings == 6

RECURSIVE ExpSeries(_, _)
ExpSeries(y, n) ==
    IF n > ExpTerms THEN DInt(1)
    ELSE Only({DAdd(DInt(1), DMul(DDiv(y, DInt(n)), rest)) : rest \in {ExpSeries(y, n + 1)}})

RECURSIVE SquaredTimes(_, _)
SquaredTimes(x, k) ==
    IF k = 0 THEN x ELSE Only({SquaredTimes(sq, k - 1) : sq \in {DMul(x, x)}})

MathExp(x) ==
    IF x.k = "nan" THEN DNaN
    ELSE IF x.k = "zero" THEN DInt(1)
    ELSE IF x.k = "inf" THEN (IF x.s > 0 THEN x ELSE DZero)
    ELSE Only({SquaredTimes(ExpSeries(y, 1), ExpHalvings) :
                  y \in {DDiv(x, DInt(Pow2(ExpHalvings)))}})

\* totalRoundness += Math.min(e.rx, e.ry) / Math.max(e.rx, e.ry)
Roundness(e) == DDiv(DInt(Min(e.rx, e.ry)), DInt(Max(e.rx, e.ry)))

\* radii.push((e.rx + e.ry) / 2)
Radius(e) == DDiv(DInt(e.rx + e.ry), DInt(2))

\* The mean of a list of doubles: the sum from 0, left to right, over the
\* length.
MeanOf(s) == DDiv(Dbl(QSum(s)), DInt(Len(s)))

SquaredOff(s, mean) == [k \in Indices(s) |-> QSquare(DSub(s[k], mean))]

\* Math.sqrt(s.reduce((a, b) => a + Math.pow(b - mean, 2), 0) / s.length) / mean
Variation(s, mean) == DDiv(DSqrt(MeanOf(SquaredOff(s, mean))), mean)

\* radiusMean > 0 ? ... / radiusMean : 1, and the same for the spacings.
VariationOrOne(s, mean) == IF DLess(DZero, mean) THEN Variation(s, mean) ELSE DInt(1)

BasicsOfMean(ells, radii, radiusMean) ==
    [meanRoundness |-> MeanOf([k \in Indices(ells) |-> Roundness(ells[k])]),
     radiusMean |-> radiusMean,
     radiusCV |-> VariationOrOne(radii, radiusMean)]

BasicsOfRadii(ells, radii) ==
    Only({BasicsOfMean(ells, radii, radiusMean) : radiusMean \in {MeanOf(radii)}})

\* meanRoundness, radiusMean and radiusCV
Basics(ells) == BasicsOfRadii(ells, [k \in Indices(ells) |-> Radius(ells[k])])

\* dist > radiusMean * 1.5
FarApart(a, b, radiusMean) ==
    DLess(DMul(radiusMean, Dbl(Q(3, 2))),
          DSqrt(DInt((b.cx - a.cx) * (b.cx - a.cx) + (b.cy - a.cy) * (b.cy - a.cy))))

AddedPair(angles, dir) == Added(Added(angles, dir), Perp(dir))

\* The body of the inner loop for the ellipses i and j.
AnglesOfPair(ells, radiusMean, i, j, angles) ==
    IF FarApart(ells[i], ells[j], radiusMean)
    THEN AddedPair(angles, HalfTurned(Direction(ells[j].cx - ells[i].cx,
                                                ells[j].cy - ells[i].cy)))
    ELSE angles

\* for (let j = i + 1; ...): the angles after the passes up to j.
RECURSIVE AnglesOfInner(_, _, _, _, _)
AnglesOfInner(ells, radiusMean, i, j, angles) ==
    IF j <= i THEN angles
    ELSE Only({AnglesOfPair(ells, radiusMean, i, j, before) :
                  before \in {AnglesOfInner(ells, radiusMean, i, j - 1, angles)}})

\* for (let i = 0; ...): the angles after the passes up to i, from
\* angles.add(0) and angles.add(Math.PI / 2).
RECURSIVE AnglesFrom(_, _, _)
AnglesFrom(ells, radiusMean, i) ==
    IF i = 0 THEN <<<<1, 0>>, <<0, 1>>>>
    ELSE Only({AnglesOfInner(ells, radiusMean, i, Len(ells), before) :
                  before \in {AnglesFrom(ells, radiusMean, i - 1)}})

\* candidates: the forced orientation alone, or 0, Math.PI / 2 and the angles
\* of the pairs.
Candidates(ells, radiusMean, forced) ==
    IF forced # <<>> THEN forced
    ELSE AnglesFrom(ells, radiusMean, Len(ells))

\* vals.sort((a, b) => a.val - b.val): the sort is stable, so x goes behind
\* every value that is not greater.
InsertedByVal(sorted, x) ==
    LET n == Cardinality({k \in Indices(sorted) : ~DLess(x.val, sorted[k].val)})
    IN  SubSeq(sorted, 1, n) \o <<x>> \o SubSeq(sorted, n + 1, Len(sorted))

RECURSIVE SortedByVal(_, _)
SortedByVal(vals, n) ==
    IF n = 0 THEN <<>>
    ELSE Only({InsertedByVal(before, vals[n]) : before \in {SortedByVal(vals, n - 1)}})

\* clusters.push({ points: curPoints, avg: curSum / curPoints.length })
ClusterPushed(acc) ==
    Append(acc.clusters, [points |-> acc.curPoints,
                          avg |-> DDiv(acc.curSum, DInt(Len(acc.curPoints)))])

\* if (vals[i].val - vals[i-1].val < gap) ... else ...
ClusterStep(acc, before, x, gap) ==
    IF DLess(DSub(x.val, before.val), gap)
    THEN [acc EXCEPT !.curPoints = Append(@, x.item), !.curSum = DAdd(@, x.val)]
    ELSE [clusters |-> ClusterPushed(acc), curPoints |-> <<x.item>>, curSum |-> x.val]

RECURSIVE ClustersTo(_, _, _)
ClustersTo(sorted, gap, n) ==
    IF n = 1 THEN [clusters |-> <<>>, curPoints |-> <<sorted[1].item>>, curSum |-> sorted[1].val]
    ELSE Only({ClusterStep(acc, sorted[n - 1], sorted[n], gap) :
                  acc \in {ClustersTo(sorted, gap, n - 1)}})

ClustersOfSorted(sorted, gap) == ClusterPushed(ClustersTo(sorted, gap, Len(sorted)))

\* cluster1D(vals, gap): each cluster by the positions of its points in the
\* list, and its avg.
cluster1D(vals, gap) ==
    IF vals = <<>> THEN <<>>
    ELSE Only({ClustersOfSorted(sorted, gap) : sorted \in {SortedByVal(vals, Len(vals))}})

\* u: e.cx * cos + e.cy * sin
AlongOf(e, cos, sin) == DAdd(DMul(DInt(e.cx), cos), DMul(DInt(e.cy), sin))

\* v: -e.cx * sin + e.cy * cos
AcrossOf(e, cos, sin) == DAdd(DMul(DInt(-e.cx), sin), DMul(DInt(e.cy), cos))

\* if (r.points.length > 1) score += Math.pow(r.points.length, 2)
RECURSIVE ScoreOf(_)
ScoreOf(clusters) ==
    IF clusters = <<>> THEN 0
    ELSE (IF Len(Head(clusters).points) > 1
          THEN Len(Head(clusters).points) * Len(Head(clusters).points) ELSE 0)
         + ScoreOf(Tail(clusters))

\* rows.filter(r => r.points.length > 1)
RECURSIVE LongOnes(_)
LongOnes(clusters) ==
    IF clusters = <<>> THEN <<>>
    ELSE IF Len(Head(clusters).points) > 1 THEN <<Head(clusters)>> \o LongOnes(Tail(clusters))
    ELSE LongOnes(Tail(clusters))

TrialOfClusters(theta, rows, cols) ==
    [orientation |-> theta, score |-> ScoreOf(rows) + ScoreOf(cols),
     rows |-> LongOnes(rows), cols |-> LongOnes(cols)]

TrialOfProjected(theta, projected, gap) ==
    Only({TrialOfClusters(theta, c[1], c[2]) :
             c \in {<<cluster1D([k \in Indices(projected) |->
                                    [val |-> projected[k][2], item |-> k]], gap),
                      cluster1D([k \in Indices(projected) |->
                                    [val |-> projected[k][1], item |-> k]], gap)>>}})

\* A gap of 12 times the mean radius.
GapThresholdWide(radiusMean) == QMax(DMul(radiusMean, DInt(12)), DInt(10))

\* const gapThreshold = Math.max(radiusMean * 1.2, 10)
GapThreshold(radiusMean) == QMax(DMul(radiusMean, Dbl(Q(6, 5))), DInt(10))

\* The body of candidates.forEach for theta: the rows, the columns and the
\* score.
GridTrial(ells, radiusMean, theta) ==
    Only({TrialOfProjected(theta, p[1], p[2]) :
             p \in {<<[k \in Indices(ells) |->
                         <<AlongOf(ells[k], CosOf(theta), SinOf(theta)),
                           AcrossOf(ells[k], CosOf(theta), SinOf(theta))>>],
                      GapThreshold(radiusMean)>>}})

\* if (score > bestScore)
Improves(score, bestScore) == score > bestScore

\* findGridFromBasis with what the grid model leaves out: the orientation
\* Math.atan2(uy, ux) and the avg of every row (the mean v of its points) and
\* column (the mean u).
WithAvg(ells, groups, theta, across) ==
    [k \in Indices(groups) |->
        [points |-> groups[k],
         avg |-> MeanOf([i \in Indices(groups[k]) |->
                            IF across THEN AcrossOf(ells[groups[k][i]], CosOf(theta), SinOf(theta))
                            ELSE AlongOf(ells[groups[k][i]], CosOf(theta), SinOf(theta))])]]

BasisGridAt(ells, info, theta) ==
    <<[orientation |-> theta, rows |-> WithAvg(ells, info.rows, theta, TRUE),
       cols |-> WithAvg(ells, info.cols, theta, FALSE)]>>

BasisGrid(ells, basis) ==
    LET found == findGridFromBasis(ells, basis).gridInfo
    IN  IF found = <<>> THEN <<>>
        ELSE BasisGridAt(ells, found[1],
                         Direction(ells[basis[2]].cx - ells[basis[1]].cx,
                                   ells[basis[2]].cy - ells[basis[1]].cy))

\* The squares Math.pow(v - r.avg, 2) of the points of the rows, in order.
RECURSIVE RowResiduals(_, _, _, _)
RowResiduals(ells, rows, cos, sin) ==
    IF rows = <<>> THEN <<>>
    ELSE [i \in Indices(Head(rows).points) |->
             QSquare(DSub(AcrossOf(ells[Head(rows).points[i]], cos, sin), Head(rows).avg))]
         \o RowResiduals(ells, Tail(rows), cos, sin)

\* The root of the mean without the test of totalP.
RmsUnguarded(residuals) == DSqrt(MeanOf(residuals))

\* if (totalP > 0) linearityRMS = Math.sqrt(sumSq / totalP)
RmsOf(residuals) ==
    IF residuals = <<>> THEN DZero ELSE DSqrt(MeanOf(residuals))

\* linearityRMS, vx and vy.
LinearityOf(ells, gridInfo) ==
    IF gridInfo # <<>> /\ (Len(gridInfo[1].rows) > 0 \/ Len(gridInfo[1].cols) > 0)
    THEN [linearityRMS |-> RmsOf(RowResiduals(ells, gridInfo[1].rows,
                                             CosOf(gridInfo[1].orientation),
                                             SinOf(gridInfo[1].orientation))),
          vx |-> CosOf(gridInfo[1].orientation), vy |-> SinOf(gridInfo[1].orientation)]
    ELSE [linearityRMS |-> DZero, vx |-> DInt(1), vy |-> DZero]

\* Math.sqrt(Math.pow(b.cx - a.cx, 2) + Math.pow(b.cy - a.cy, 2))
DistOf(a, b) ==
    DSqrt(DInt((b.cx - a.cx) * (b.cx - a.cx) + (b.cy - a.cy) * (b.cy - a.cy)))

\* if (dist < radiusMean * 5) spacings.push(dist)
Neighbours(dist, radiusMean) == DLess(dist, DMul(radiusMean, DInt(5)))

RECURSIVE SpacingsTo(_, _, _, _)
SpacingsTo(ells, sorted, radiusMean, n) ==
    IF n = 0 THEN <<>>
    ELSE LET before == SpacingsTo(ells, sorted, radiusMean, n - 1)
             dist == DistOf(ells[sorted[n].item], ells[sorted[n + 1].item])
         IN  IF Neighbours(dist, radiusMean) THEN Append(before, dist) ELSE before

SpacingOfMean(spacings, spacingMean) ==
    [spacings |-> spacings, spacingMean |-> spacingMean,
     spacingCV |-> VariationOrOne(spacings, spacingMean)]

SpacingOfList(spacings) ==
    Only({SpacingOfMean(spacings, spacingMean) :
             spacingMean \in {IF spacings = <<>> THEN DZero ELSE MeanOf(spacings)}})

\* sorted (by t = e.cx * vx + e.cy * vy), the spacings, spacingMean and
\* spacingCV.
SpacingOf(ells, radiusMean, vx, vy) ==
    Only({SpacingOfList(SpacingsTo(ells, sorted, radiusMean, Len(sorted) - 1)) :
             sorted \in {SortedByVal([k \in Indices(ells) |->
                                         [val |-> AlongOf(ells[k], vx, vy), item |-> k]],
                                     Len(ells))}})

\* Math.round(x) of a double, as a double.
Rounded(x) == IF x.k \in {"nan", "inf", "zero"} THEN x ELSE DInt(MathRound(x))

\* 100 * Math.exp(x)
Decay(x) == DMul(DInt(100), MathExp(x))

\* 100 * Math.exp(-3 * (1 - meanRoundness))
DecayOfRoundness(b) == Decay(DMul(DInt(-3), DSub(DInt(1), b.meanRoundness)))

\* 100 * Math.exp(-5 * (radiusMean > 0 ? linearityRMS / radiusMean : 1))
DecayOfLinearity(b, lin) ==
    Decay(DMul(DInt(-5), IF DLess(DZero, b.radiusMean)
                         THEN DDiv(lin.linearityRMS, b.radiusMean) ELSE DInt(1)))

\* 100 * Math.exp(-3 * (radiusCV + spacingCV) / 2)
DecayOfConsistency(b, sp) ==
    Decay(DDiv(DMul(DInt(-3), DAdd(b.radiusCV, sp.spacingCV)), DInt(2)))

\* 0.4 * sR + 0.35 * sL + 0.25 * sC
Weighted(sR, sL, sC) ==
    DAdd(DAdd(DMul(Dbl(Q(2, 5)), sR), DMul(Dbl(Q(7, 20)), sL)), DMul(Dbl(Q(1, 4)), sC))

MetricsOfScores(b, lin, sp, sR, sL, sC, n) ==
    [meanRoundness |-> b.meanRoundness, radiusMean |-> b.radiusMean, radiusCV |-> b.radiusCV,
     spacingMean |-> sp.spacingMean, spacingCV |-> sp.spacingCV,
     linearityRMS |-> lin.linearityRMS,
     scoreRoundness |-> sR, scoreLinearity |-> sL, scoreConsistency |-> sC,
     finalScore |-> Rounded(Weighted(sR, sL, sC)), sampleCount |-> n]

\* The metrics returned for 2 or more ellipses.
MetricsOf(b, lin, sp, n) ==
    Only({MetricsOfScores(b, lin, sp, s[1], s[2], s[3], n) :
             s \in {<<Rounded(DecayOfRoundness(b)), Rounded(DecayOfLinearity(b, lin)),
                      Rounded(DecayOfConsistency(b, sp))>>}})

\* emptyMetrics
EmptyMetrics(n) ==
    [meanRoundness |-> DZero, radiusMean |-> DZero, radiusCV |-> DInt(1),
     spacingMean |-> DZero, spacingCV |-> DInt(1), linearityRMS |-> DZero,
     scoreRoundness |-> DZero, scoreLinearity |-> DZero, scoreConsistency |-> DZero,
     finalScore |-> DZero, sampleCount |-> n]

\* if (ellipses.length < 2) return { metrics: emptyMetrics, ellipses }; else
\* the basic metrics.
SpotsBasics ==
    /\ spots.pc = "called"
    /\ IF Len(spots.ellipses) < 2
       THEN spots' = [spots EXCEPT !.pc = "returned",
                                   !.metrics = <<EmptyMetrics(Len(spots.ellipses))>>]
       ELSE spots' = [spots EXCEPT !.pc = "detect", !.basics = <<Basics(spots.ellipses)>>]
    /\ UNCHANGED besideScoring

\* gridInfo = findGridFromBasis(ellipses, options.gridBasis)
SpotsBasis ==
    /\ spots.pc = "detect"
    /\ spots.mode = "basis"
    /\ spots' = [spots EXCEPT !.pc = "detected",
                              !.gridInfo = BasisGrid(spots.ellipses, spots.basis)]
    /\ UNCHANGED besideScoring

\* findOptimalGrid up to its loop: the candidates.
SpotsCandidates ==
    /\ spots.pc = "detect"
    /\ spots.mode # "basis"
    /\ spots' = [spots EXCEPT !.pc = "search",
                              !.search.candidates =
                                  Candidates(spots.ellipses, spots.basics[1].radiusMean,
                                             IF spots.mode = "forced" THEN spots.basis
                                             ELSE <<>>)]
    /\ UNCHANGED besideScoring

\* One pass of candidates.forEach.
SpotsTry ==
    /\ spots.pc = "search"
    /\ spots.search.tried < Len(spots.search.candidates)
    /\ \E trial \in {GridTrial(spots.ellipses, spots.basics[1].radiusMean,
                               spots.search.candidates[spots.search.tried + 1])} :
          IF Improves(trial.score, spots.search.bestScore)
          THEN spots' = [spots EXCEPT !.search.tried = @ + 1,
                                      !.search.bestScore = trial.score,
                                      !.search.scores = Append(@, trial.score),
                                      !.gridInfo = <<[orientation |-> trial.orientation,
                                                      rows |-> trial.rows,
                                                      cols |-> trial.cols]>>]
          ELSE spots' = [spots EXCEPT !.search.tried = @ + 1,
                                      !.search.scores = Append(@, trial.score)]
    /\ UNCHANGED besideScoring

\* return { orientation: bestOrientation, rows: bestRows, cols: bestCols }
SpotsFound ==
    /\ spots.pc = "search"
    /\ spots.search.tried = Len(spots.search.candidates)
    /\ spots' = [spots EXCEPT !.pc = "detected"]
    /\ UNCHANGED besideScoring

\* linearityRMS, vx and vy.
SpotsLinearity ==
    /\ spots.pc = "detected"
    /\ spots' = [spots EXCEPT !.pc = "measured",
                              !.linearity = <<LinearityOf(spots.ellipses, spots.gridInfo)>>]
    /\ UNCHANGED besideScoring

\* The spacings, spacingMean and spacingCV.
SpotsSpacing ==
    /\ spots.pc = "measured"
    /\ spots' = [spots EXCEPT !.pc = "spaced",
                              !.spacing = <<SpacingOf(spots.ellipses,
                                                      spots.basics[1].radiusMean,
                                                      spots.linearity[1].vx,
                                                      spots.linearity[1].vy)>>]
    /\ UNCHANGED besideScoring

\* The scores and the return.
SpotsScore ==
    /\ spots.pc = "spaced"
    /\ spots' = [spots EXCEPT !.pc = "returned",
                              !.metrics = <<MetricsOf(spots.basics[1], spots.linearity[1],
                                                      spots.spacing[1],
                                                      Len(spots.ellipses))>>]
    /\ UNCHANGED besideScoring

\* The ellipse lists of a call, each ellipse as <<cx, cy, rx, ry>>: a 3 by 3
\* grid with 50 px between its centres and radius 10, row by row; the same
\* grid moved and in another order; two flat ellipses side by side; two
\* round ellipses one above the other; two ellipses of radius 0 one above the
\* other; three ellipses in a bent row; two ellipses on a slant; one ellipse;
\* three ellipses on a line and one off it.
SpotLists ==
    {<<<<0, 0, 10, 10>>, <<50, 0, 10, 10>>, <<100, 0, 10, 10>>,
       <<0, 50, 10, 10>>, <<50, 50, 10, 10>>, <<100, 50, 10, 10>>,
       <<0, 100, 10, 10>>, <<50, 100, 10, 10>>, <<100, 100, 10, 10>>>>,
     <<<<70, 80, 10, 10>>, <<20, 130, 10, 10>>, <<120, 30, 10, 10>>,
       <<20, 30, 10, 10>>, <<120, 80, 10, 10>>, <<70, 130, 10, 10>>,
       <<70, 30, 10, 10>>, <<120, 130, 10, 10>>, <<20, 80, 10, 10>>>>,
     <<<<0, 0, 10, 5>>, <<40, 0, 10, 5>>>>,
     <<<<0, 0, 10, 10>>, <<0, 40, 10, 10>>>>,
     <<<<0, 0, 0, 0>>, <<0, 40, 0, 0>>>>,
     <<<<0, 0, 10, 10>>, <<50, 3, 10, 10>>, <<100, 0, 10, 10>>>>,
     <<<<0, 0, 10, 10>>, <<30, 40, 10, 10>>>>,
     <<<<3, 3, 4, 4>>>>,
     <<<<0, 0, 4, 4>>, <<20, 20, 4, 4>>, <<40, 40, 4, 4>>, <<40, 0, 4, 6>>>>}

SpotsAt(list) ==
    [k \in Indices(list) |->
        [id |-> k, cx |-> list[k][1], cy |-> list[k][2], rx |-> list[k][3], ry |-> list[k][4]]]

\* options.forcedOrientation: 0 or Math.PI / 2.
ForcedOrientations == {<<<<1, 0>>>>, <<<<0, 1>>>>}

\* options.gridBasis, by the positions of origin, xRef and yRef in the list.
SpotBases == {<<1, 2, 3>>, <<1, 2, 4>>, <<2, 1, 4>>}

InitSpots ==
    /\ CalibrationIdle
    /\ ImagingIdle
    /\ DeskIdle
    /\ SamplingIdle
    /\ LatticeIdle
    /\ ViewingIdle
    /\ MappingIdle
    /\ \E list \in SpotLists :
          \/ spots = [NoSpots EXCEPT !.pc = "called", !.ellipses = SpotsAt(list)]
          \/ \E forced \in ForcedOrientations :
                spots = [NoSpots EXCEPT !.pc = "called", !.ellipses = SpotsAt(list),
                                        !.mode = "forced", !.basis = forced]
          \/ \E basis \in SpotBases :
                /\ \A k \in 1..3 : basis[k] <= Len(list)
                /\ spots = [NoSpots EXCEPT !.pc = "called", !.ellipses = SpotsAt(list),
                                           !.mode = "basis", !.basis = basis]

NextSpots ==
    \/ SpotsBasics
    \/ SpotsBasis
    \/ SpotsCandidates
    \/ SpotsTry
    \/ SpotsFound
    \/ SpotsLinearity
    \/ SpotsSpacing
    \/ SpotsScore

SpecSpots == InitSpots /\ [][NextSpots]_vars

\* ================================================================== claims
Returned == pc = "done"

ZeroModel(r) ==
    /\ r.isValid = FALSE
    /\ r.slope = I(0)
    /\ r.intercept = I(0)
    /\ r.rotationCenterX = I(0)
    /\ r.angularResolution = Degrees(I(0))
    /\ r.rSquared = I(0)
    /\ r.reprojectionError = Root(I(0))

\* C1: for every method, a list of 0, 1 or 2 ellipses never enters a fitter;
\* the call returns the all-zero model with isValid = false and the input
\* ellipses, each tagged active and otherwise unchanged.
C1_TooFewGivesZeroModel ==
    Len(ellipses) < 3 =>
        /\ pc \in {"start", "done"}
        /\ Returned =>
              /\ ZeroModel(out.result)
              /\ Len(out.updatedEllipses) = Len(ellipses)
              /\ \A i \in Indices(ellipses) :
                    out.updatedEllipses[i] = [ellipses[i] EXCEPT !.status = "active"]

C1_Witness ==
    /\ Returned
    /\ Len(ellipses) = 2
    /\ method = "ransac"
    /\ ellipses[1].status = "outlier"
    /\ ellipses[1].cx # ellipses[2].cx
    /\ getAspectRatio(ellipses[1]) # getAspectRatio(ellipses[2])

SameGeometry(e, f) ==
    /\ e.id = f.id
    /\ e.cx = f.cx
    /\ e.cy = f.cy
    /\ e.rx = f.rx
    /\ e.ry = f.ry
    /\ e.angle = f.angle

\* C2: for every method and at least 3 ellipses, the returned list has the
\* length and order of the input, every element keeps id, cx, cy, rx, ry and
\* angle, and is 'active' exactly when its index is in the inlier set the
\* method chose and 'outlier' otherwise, whatever status it came with.
C2_StatusFollowsInlierSet ==
    (Returned /\ Len(ellipses) >= 3) =>
        /\ Len(out.updatedEllipses) = Len(ellipses)
        /\ \A i \in Indices(ellipses) :
              /\ SameGeometry(out.updatedEllipses[i], ellipses[i])
              /\ out.updatedEllipses[i].status \in {"active", "outlier"}
              /\ out.updatedEllipses[i].status = "active" <=> i \in inlierIndices

C2_Witness ==
    /\ Returned
    /\ Len(ellipses) >= 3
    /\ \E i, j \in Indices(ellipses) :
          /\ ellipses[i].status = "outlier" /\ i \in inlierIndices
          /\ ellipses[j].status = "active" /\ j \notin inlierIndices

ActiveCount == Cardinality({i \in Indices(out.updatedEllipses) :
                              out.updatedEllipses[i].status = "active"})

\* C3: for every method and at least 3 ellipses, isValid is true iff at least
\* 3 ellipses are returned active and the returned rSquared exceeds 0.5.
C3_ValidIffThreeInliersAndFit ==
    (Returned /\ Len(ellipses) >= 3) =>
        (out.result.isValid <=>
            (ActiveCount >= 3 /\ QLess(Q(1, 2), out.result.rSquared)))

C3_Witness ==
    /\ Returned
    /\ Len(ellipses) >= 3
    /\ out.result.isValid
    /\ ActiveCount = 3

\* C4: the returned rSquared is a number of the closed interval [0, 1]: never
\* NaN, never above 1.
C4_RSquaredInUnitInterval ==
    Returned =>
        /\ IsFinite(out.result.rSquared)
        /\ QLeq(I(0), out.result.rSquared)
        /\ QLeq(out.result.rSquared, I(1))

\* The trim percentage and the points of the round the iterative method is in.
RoundPercentage == OrDefault(options.iterativePercentage, 10)
RoundPoints == {iter.currentData[k] : k \in Indices(iter.currentData)}

\* The number of survivors the claim gives for a round of m points.
SurvivorsOf(m, p) ==
    LET floored == (m * p) \div 100
        removed == IF floored >= 1 THEN floored ELSE 1
    IN  IF m - removed >= 3 THEN m - removed ELSE 3

\* A round of the iterative method has just been made.
TrimRound == pc = "iterative" /\ iter'.k = iter.k + 1

\* Absolute residuals of the points against the fit over the round's points.
RoundResiduals ==
    LET ls == LeastSquares(Pick(DataOf(ellipses), iter.currentData))
    IN  [i \in Indices(ellipses) |-> Residual(ls.slope, ls.intercept, DataOf(ellipses)[i])]

\* C5: in the iterative method with at least 3 points, at least one round and
\* a trim percentage of at least 1, a round that starts with m points ends
\* with max(3, m - max(1, floor(m*p/100))) points, all of them points of the
\* round, none with a larger residual than a discarded point; and the final
\* inlier set has at least 3 members.
C5_TrimRounds ==
    /\ [][TrimRound =>
            LET survivors == {iter'.currentData[k] : k \in Indices(iter'.currentData)}
                gone      == RoundPoints \ survivors
            IN  /\ Len(iter'.currentData) = SurvivorsOf(Len(iter.currentData), RoundPercentage)
                /\ Cardinality(survivors) = Len(iter'.currentData)
                /\ survivors \subseteq RoundPoints
                /\ \E res \in {RoundResiduals} :
                      \A d \in gone : \A v \in survivors : ~QLess(res[d], res[v])]_vars
    /\ []((Returned /\ method = "iterative" /\ Len(ellipses) >= 3)
             => Cardinality(inlierIndices) >= 3)

\* C6: two calls with the same ellipse list, method (ransac included) and
\* parameters return the same slope, intercept, rotationCenterX, rSquared and
\* isValid and the same status for every ellipse.
C6_SameInputSameOutput ==
    (Returned /\ calls = 2) =>
        /\ out.result.slope = prev.result.slope
        /\ out.result.intercept = prev.result.intercept
        /\ out.result.rotationCenterX = prev.result.rotationCenterX
        /\ out.result.rSquared = prev.result.rSquared
        /\ out.result.isValid = prev.result.isValid
        /\ \A i \in Indices(ellipses) :
              out.updatedEllipses[i].status = prev.updatedEllipses[i].status

AllPairs == {{a, b} : a, b \in Indices(ellipses)} \ {{a} : a \in Indices(ellipses)}

\* C7: with few points the RANSAC fitter evaluates every unordered pair of
\* points exactly once instead of drawing random pairs.
C7_ExhaustivePairsWhenSmall ==
    (Returned /\ method = "ransac" /\ Len(ellipses) >= 3) =>
        /\ ~trialLog.repeat
        /\ trialLog.once = AllPairs
        /\ ransac.i = Cardinality(AllPairs)

KeptInliers == {ransac.bestInlierIndices[k] : k \in Indices(ransac.bestInlierIndices)}

\* C8: of the trials it evaluates the RANSAC fitter keeps one with the most
\* inliers and, among those with as many inliers, one of the lowest summed
\* error; the reported slope and intercept are the least-squares fit over that
\* trial's inliers.
C8_MostInliersThenLowestError ==
    (Returned /\ method = "ransac" /\ trialLog.maxSeen >= 2) =>
        /\ ransac.maxInliers = trialLog.maxSeen
        /\ QLeq(trialLog.keptError, trialLog.tieError)
        /\ inlierIndices = KeptInliers
        /\ LET ls == LeastSquares(Pick(DataOf(ellipses), Ascending(KeptInliers)))
           IN  out.result.slope = ls.slope /\ out.result.intercept = ls.intercept

SameCx == \A i, j \in Indices(ellipses) : ellipses[i].cx = ellipses[j].cx

\* C9: when all of 3 or more ellipses have the same cx (the least-squares
\* denominator is zero), the call returns isValid = false under each of the
\* three methods.  It holds of integer centres, where the denominator is
\* exactly 0, and fails of the linear method on equal fractional centres,
\* where the denominator the program computes is a rounding residue.
C9_SameCxIsInvalid ==
    (Returned /\ Len(ellipses) >= 3 /\ SameCx) => ~out.result.isValid

InjectedIndices == Indices(ellipses) \ CleanIndices

CleanFit == LeastSquares(Pick(DataOf(ellipses), Ascending(CleanIndices)))

\* |a - clean| <= 5% of |clean|
WithinFivePercent(a, clean) ==
    QLeq(QAbs(QSub(a, clean)), QMul(Q(1, 20), QAbs(clean)))

\* C11: with 2 ellipses off the line injected into 10 ellipses exactly on a
\* line, the ransac and the iterative method (3 rounds, 10%) tag both
\* injected ellipses 'outlier' and return slope and intercept within 5% of the
\* least-squares fit of the 10 clean ones, whatever pairs RANSAC draws.
C11_InjectedOutliersRejected ==
    (Returned /\ method \in {"ransac", "iterative"}) =>
        /\ \A i \in InjectedIndices : out.updatedEllipses[i].status = "outlier"
        /\ WithinFivePercent(out.result.slope, CleanFit.slope)
        /\ WithinFivePercent(out.result.intercept, CleanFit.intercept)

\* ------------------------------------------------ autoDetectEllipses
\* Pixels p and q of an image width wide are side by side or one above the
\* other.
Adjacent(p, q, width) ==
    \/ p \div width = q \div width /\ Abs((p % width) - (q % width)) = 1
    \/ p % width = q % width /\ Abs((p \div width) - (q \div width)) = 1

\* The targets reached from the pixels of S by paths of adjacent targets.
RECURSIVE Reached(_, _, _)
Reached(S, target, width) ==
    IF \E q \in target \ S : \E p \in S : Adjacent(p, q, width)
    THEN Reached(S \cup {q \in target : \E p \in S : Adjacent(p, q, width)}, target, width)
    ELSE S

\* The blobs filled so far are the 4-connected components of their seeds.
BlobsAreComponents ==
    \A k \in Indices(scan.blobs) :
        scan.blobs[k].pixels = Reached({scan.blobs[k].seed}, scan.target, scan.width)

\* C12: the pixels that autoDetectEllipses sums into one blob's moments are
\* exactly the 4-connected component of targets that holds the seed; pixels
\* at the end of a row and the start of the next are not joined by it.
C12_BlobIsConnectedComponent == BlobsAreComponents

\* The same for the images at least two pixels wide.
C12_WideBlobIsConnectedComponent == scan.width >= 2 => BlobsAreComponents

\* A blob of an image at least two pixels wide has been filled that turns a
\* corner, with a target just across the row end from one of its pixels.
C12_WideWitness ==
    /\ scan.width >= 2
    /\ \E k \in Indices(scan.blobs) :
          /\ Cardinality(scan.blobs[k].pixels) >= 3
          /\ \E p, q \in scan.blobs[k].pixels : p % scan.width # q % scan.width
                                                 /\ p \div scan.width # q \div scan.width
    /\ \E k \in Indices(scan.blobs) :
          \E p \in scan.blobs[k].pixels :
             /\ p % scan.width = scan.width - 1
             /\ p + 1 \in scan.target \ scan.blobs[k].pixels

\* C13: on an image with no target pixel autoDetectEllipses returns an empty
\* list of ellipses and an empty list of regions, with the trend filter on or
\* off.
C13_NoTargetGivesNothing ==
    (scan.pc = "done" /\ scan.target = {}) => scan.out = NoDetection

\* An image without targets has been scanned with the trend filter on.
C13_Witness ==
    /\ scan.pc = "done"
    /\ scan.target = {}
    /\ scan.width * scan.height > MaxPixels
    /\ scan.enableFiltering
    /\ scan.out = NoDetection

\* The ellipse a is the ellipse b but for id and status.
SameShape(a, b) ==
    /\ a.cx = b.cx /\ a.cy = b.cy /\ a.rx = b.rx /\ a.ry = b.ry /\ a.angle = b.angle

\* max(rx, ry) / min(rx, ry)
AxisRatio(e) == QDiv(QMax(e.rx, e.ry), IF QLess(e.rx, e.ry) THEN e.rx ELSE e.ry)

\* More than 5 pixels and less than 40% of the image.
SizeInBounds(s, count) == count > 5 /\ 5 * count < 2 * s.width * s.height

AxesInBounds(s, e) ==
    /\ \A r \in {e.rx, e.ry} : QLeq(DInt(s.minRadius), r) /\ QLeq(r, DInt(s.maxRadius))
    /\ QLeq(AxisRatio(e), DInt(5))

\* The returned ellipse e is that of a blob within the bounds.
FromBlobInBounds(s, e) ==
    \E k \in Indices(s.blobs) :
        /\ s.blobs[k].found # <<>>
        /\ SameShape(s.blobs[k].found[1], e)
        /\ SizeInBounds(s, s.blobs[k].count)
        /\ AxesInBounds(s, e)

ReturnedAreInBounds ==
    scan.pc = "done" =>
        \A i \in Indices(scan.out.ellipses) : FromBlobInBounds(scan, scan.out.ellipses[i])

\* C14: every ellipse that autoDetectEllipses returns is that of a blob of
\* more than 5 pixels and less than 40% of the image, with rx and ry in
\* [minRadius, maxRadius] and max(rx, ry) / min(rx, ry) at most 5.
C14_ReturnedBlobsAreInBounds == ReturnedAreInBounds

\* The same for the copy in src/utils/imageProcessing.ts alone.
C14_UtilsReturnedBlobsAreInBounds == scan.version = "utils" => ReturnedAreInBounds

\* That copy has returned an ellipse and turned down a blob of more than 5
\* pixels.
C14_UtilsWitness ==
    /\ scan.pc = "done"
    /\ scan.version = "utils"
    /\ scan.out.ellipses # <<>>
    /\ \E k \in Indices(scan.blobs) : scan.blobs[k].count > 5 /\ scan.blobs[k].found = <<>>

\* The sequences a and b hold the same ellipses, in any order.
SameEllipses(a, b) ==
    /\ Len(a) = Len(b)
    /\ \E f \in [Indices(a) -> Indices(b)] :
          /\ \A i, j \in Indices(a) : f[i] = f[j] => i = j
          /\ \A i \in Indices(a) : SameShape(a[i], b[f[i]])

\* The number of ellipses in the rows before the k-th.
RECURSIVE CountBefore(_, _)
CountBefore(rows, k) == IF k = 1 THEN 0 ELSE CountBefore(rows, k - 1) + Len(rows[k - 1])

\* The row that holds the i-th ellipse of the rows taken one after another.
RowOf(rows, i) ==
    CHOOSE k \in Indices(rows) :
        CountBefore(rows, k) < i /\ i <= CountBefore(rows, k) + Len(rows[k])

\* The i-th of the ellipses byCy is within 1.5 row tolerances of the mean cy
\* of those before it in the row of the one before it.
NearRowBefore(byCy, rows, i) ==
    QLess(QAbs(QSub(byCy[i].cy,
                    RowMeanCy(SubSeq(byCy, CountBefore(rows, RowOf(rows, i - 1)) + 1, i - 1)))),
          QMul(QMax(byCy[1].ry, DInt(10)), Q(3, 2)))

\* rows cuts byCy, the ellipses in the order of their cy, into runs: an
\* ellipse goes on in the row of the one before it exactly when it is near
\* that row, and each row holds its run in the order of cx.
RowsCut(byCy, rows) ==
    /\ \A k \in Indices(rows) :
          /\ rows[k] # <<>>
          /\ SameEllipses(rows[k], SubSeq(byCy, CountBefore(rows, k) + 1,
                                          CountBefore(rows, k) + Len(rows[k])))
          /\ \A i \in 2..Len(rows[k]) : QLeq(rows[k][i - 1].cx, rows[k][i].cx)
    /\ \A i \in 2..Len(byCy) :
          RowOf(rows, i) = RowOf(rows, i - 1) <=> NearRowBefore(byCy, rows, i)

\* C15: the reading-order sort gives the surviving ellipses back, none lost
\* and none twice, as rows one after another, each in the order of cx; an
\* ellipse, taken in the order of cy, joins the current row exactly when its
\* cy is less than 1.5 row tolerances from the mean cy of the row so far.
C15_ReadingOrderIsRowsByCx ==
    (scan.pc = "done" /\ scan.version = "utils") =>
        /\ SameEllipses(scan.out.ellipses, scan.detected)
        /\ SameEllipses(scan.out.ellipses, Flat(scan.rows, Len(scan.rows)))
        /\ \A i \in Indices(scan.out.ellipses) :
              SameShape(scan.out.ellipses[i], Flat(scan.rows, Len(scan.rows))[i])
        /\ RowsCut(SortedBy(scan.detected, "cy"), scan.rows)

\* Five ellipses have been sorted into two rows, the order of the detection
\* changed, and an ellipse is in the first row that is more than a row
\* tolerance below its first ellipse.
C15_Witness ==
    /\ scan.pc = "done"
    /\ scan.version = "utils"
    /\ Len(scan.detected) = 5
    /\ Len(scan.rows) = 2
    /\ \E i \in Indices(scan.detected) : ~SameShape(scan.detected[i], scan.out.ellipses[i])
    /\ \E i \in Indices(scan.rows[1]) :
          QLess(QAdd(scan.rows[1][1].cy, DInt(10)), scan.rows[1][i].cy)

\* ----------------------------------------------------- the working set
DistinctIds(seq) == \A i, j \in Indices(seq) : seq[i].id = seq[j].id => i = j

\* C16: after any detections and clicks no two regions of the working set
\* have one id, and no two ellipses.
C16_IdsAreUnique == DistinctIds(work.rois) /\ DistinctIds(work.ellipses)

\* A click has made a region with the id of a detected one, a millisecond
\* after the detection.
C16_ClickAfterDetection ==
    /\ Len(work.rois) = 3
    /\ work.rois[1].id + 1 = work.rois[2].id
    /\ work.rois[3].id = work.rois[2].id
    /\ work.now = work.rois[2].id
    /\ Len(work.ellipses) = 2

\* ---------------------------------------------------------------------- C17
\* The call has returned on degenerate input: no pixel was inside the region,
\* or the weights of the selected pixels summed to zero.
Degenerate ==
    /\ extract.pc = "done"
    /\ \/ extract.pixels = <<>>
       \/ extract.m # <<>> /\ QEq(extract.m[1].m00, DZero)

HasNaN(e) == IsNaN(e.cx) \/ IsNaN(e.cy) \/ IsNaN(e.rx) \/ IsNaN(e.ry)

\* The ellipse e is the region as it was given: its id, centre, axes and
\* rotation.
IsUnchanged(e, roi) ==
    /\ e.id = roi.id
    /\ QEq(e.cx, HalfOf(roi.cx)) /\ QEq(e.cy, HalfOf(roi.cy))
    /\ QEq(e.rx, HalfOf(roi.rx)) /\ QEq(e.ry, HalfOf(roi.ry))
    /\ e.angle = Radians(DZero)

\* C17: on degenerate input (no pixel inside the region, or a total weight of
\* zero) extractEllipseFromROI returns the region's own id, centre, axes and
\* rotation unchanged, and never a NaN field.
C17_DegenerateReturnsUnchanged ==
    Degenerate => IsUnchanged(extract.out[1], extract.roi) /\ ~HasNaN(extract.out[1])

\* part_004, every pixel below the threshold given: the centre is the corner
\* of the sampling window and the axes are 1.
C17_CentreAtCorner ==
    /\ Degenerate /\ extract.version = "part_004" /\ extract.thresholdOverride = 128
    /\ extract.roi.cx = 1 /\ extract.roi.rx = 4 /\ extract.roi.ry = 4
    /\ extract.mode = "light" /\ \A k \in 1..4 : extract.canvas.gray[k] = 0
    /\ QEq(extract.out[1].cx, DInt(extract.window.startX))
    /\ QEq(extract.out[1].rx, DInt(1))
    /\ ~IsUnchanged(extract.out[1], extract.roi)

\* utils, the one pixel inside the region has the value 0: the centre is NaN.
C17_CentreIsNaN ==
    /\ Degenerate /\ extract.version = "utils"
    /\ extract.roi.cx = 0 /\ extract.roi.rx = 1 /\ Len(extract.pixels) = 1
    /\ IsNaN(extract.out[1].cx) /\ IsNaN(extract.out[1].cy)

C17_NoCentreAtCorner == ~C17_CentreAtCorner

C17_NoCentreIsNaN == ~C17_CentreIsNaN

\* ---------------------------------------------------------------------- C18
AxesAtLeastOne(e) == QLeq(DInt(1), e.rx) /\ QLeq(DInt(1), e.ry)

\* C18: every ellipse returned by extractEllipseFromROI or by
\* autoDetectEllipses has rx >= 1 and ry >= 1, whatever the region and the
\* pixels.
C18_AxesAreAtLeastOne ==
    /\ extract.pc = "done" => AxesAtLeastOne(extract.out[1])
    /\ scan.pc = "done" =>
          \A i \in Indices(scan.out.ellipses) : AxesAtLeastOne(scan.out.ellipses[i])

\* part_004, a region of axes 0.5 that lies left of the image: the window is
\* empty and the axes come back as they were.
C18_SmallRegionOutside ==
    /\ extract.pc = "done" /\ extract.version = "part_004"
    /\ extract.roi.cx < 0 /\ extract.window.width <= 0
    /\ QEq(extract.out[1].rx, HalfOf(1)) /\ QEq(extract.out[1].ry, HalfOf(1))

\* part_004, a region of axes 0.5 on the first pixel: fewer than 3 pixels are
\* inside and the axes come back as they were.
C18_SmallRegionInside ==
    /\ extract.pc = "done" /\ extract.version = "part_004"
    /\ extract.roi.cx = 0 /\ Len(extract.pixels) = 1
    /\ QEq(extract.out[1].rx, HalfOf(1)) /\ QEq(extract.out[1].ry, HalfOf(1))

C18_NoSmallRegionOutside == ~C18_SmallRegionOutside

C18_NoSmallRegionInside == ~C18_SmallRegionInside

\* What autoDetectEllipses returns does have axes of 1 or more.
C18_DetectedAxesAreAtLeastOne ==
    scan.pc = "done" =>
       \A i \in Indices(scan.out.ellipses) : AxesAtLeastOne(scan.out.ellipses[i])

\* ---------------------------------------------------------------------- C19
\* The cross product of xRef - origin and yRef - origin, in whole numbers.
Cross(o, x, y) == (x.cx - o.cx) * (y.cy - o.cy) - (x.cy - o.cy) * (y.cx - o.cx)

BasisCross ==
    Cross(grid.ellipses[grid.basis[1]], grid.ellipses[grid.basis[2]],
          grid.ellipses[grid.basis[3]])

\* C19: when origin, xRef and yRef are on one line (two of them the same
\* ellipse included), findGridFromBasis returns no grid and puts no ellipse
\* in a row or a column, and analyzeTransformedSpots reports no grid lines
\* and no best-fit line.
C19_CollinearBasisGivesNoGrid ==
    (grid.pc \in {"resolved", "done"} /\ BasisCross = 0) =>
       /\ grid.gridInfo = <<>>
       /\ grid.placed = <<>>
       /\ grid.pc = "done" => grid.out = NoGrid

\* Three different ellipses on one line for a basis, among 4 ellipses.
C19_Witness ==
    /\ grid.pc = "done" /\ BasisCross = 0
    /\ Len(grid.ellipses) = 4
    /\ \A a, b \in 1..3 : grid.basis[a] = grid.basis[b] => a = b
    /\ grid.out = NoGrid

\* ---------------------------------------------------------------------- C20
\* The basis and an ellipse's offset from the origin, in whole numbers.
OriginOf == grid.ellipses[grid.basis[1]]

Ux == grid.ellipses[grid.basis[2]].cx - OriginOf.cx

Uy == grid.ellipses[grid.basis[2]].cy - OriginOf.cy

Vx == grid.ellipses[grid.basis[3]].cx - OriginOf.cx

Vy == grid.ellipses[grid.basis[3]].cy - OriginOf.cy

\* round(n / d) for d # 0, halves upwards.
RoundRatio(n, d) == IF d > 0 THEN (2 * n + d) \div (2 * d) ELSE (-2 * n - d) \div (-2 * d)

\* round(i) and round(j) where (i, j) solves (dx, dy) = i * u + j * v.
NodeI(dx, dy) == RoundRatio(Vy * dx - Vx * dy, BasisCross)

NodeJ(dx, dy) == RoundRatio(Ux * dy - Uy * dx, BasisCross)

\* The square of the distance from (dx, dy) to the node i * u + j * v.
SquareOff(dx, dy, i, j) ==
    (dx - i * Ux - j * Vx) * (dx - i * Ux - j * Vx)
    + (dy - i * Uy - j * Vy) * (dy - i * Uy - j * Vy)

\* d < 0.4 * (|u| + |v|) / 2 for d * d = dd, |u|^2 = uu, |v|^2 = vv: that is
\* 25 dd - uu - vv < 2 |u| |v|.
Under40Percent(dd, uu, vv) ==
    \/ 25 * dd - uu - vv < 0
    \/ (25 * dd - uu - vv) * (25 * dd - uu - vv) < 4 * uu * vv

\* Where the k-th ellipse belongs, and whether it is near enough to its node.
NodeOf(dx, dy) ==
    [I |-> NodeI(dx, dy), J |-> NodeJ(dx, dy),
     put |-> Under40Percent(SquareOff(dx, dy, NodeI(dx, dy), NodeJ(dx, dy)),
                            Ux * Ux + Uy * Uy, Vx * Vx + Vy * Vy)]

NodeOfEllipse(k) == NodeOf(grid.ellipses[k].cx - OriginOf.cx, grid.ellipses[k].cy - OriginOf.cy)

\* The k-th ellipse is in the group g; the groups that hold it.
GroupsWith(groups, k) == {g \in Indices(groups) : \E n \in Indices(groups[g]) : groups[g][n] = k}

\* The ellipses put under the same row key (column key) as the k-th.
RowMates(k) == {n \in Indices(grid.ellipses) : grid.placed[n].put /\ grid.placed[n].J = grid.placed[k].J}

ColMates(k) == {n \in Indices(grid.ellipses) : grid.placed[n].put /\ grid.placed[n].I = grid.placed[k].I}

\* findGridFromBasis has returned a grid for a basis that is not on a line.
Resolved == grid.pc \in {"resolved", "done"} /\ grid.gridInfo # <<>>

\* C20 (as stated): with a basis not on a line, each ellipse is in at most one
\* row and one column of the grid returned, and it is in one of each exactly
\* when it is nearer to its lattice node than 40% of the mean length of u and
\* v; origin, xRef and yRef are then always in a row and a column.
C20_PlacedExactlyWhenNear ==
    Resolved =>
       \A k \in Indices(grid.ellipses) :
          /\ Cardinality(GroupsWith(grid.gridInfo[1].rows, k)) <= 1
          /\ Cardinality(GroupsWith(grid.gridInfo[1].cols, k)) <= 1
          /\ NodeOfEllipse(k).put <=> GroupsWith(grid.gridInfo[1].rows, k) # {}
          /\ NodeOfEllipse(k).put <=> GroupsWith(grid.gridInfo[1].cols, k) # {}

\* C20 (amended): with a basis not on a line, each ellipse is put under the
\* row key round(j) and the column key round(i), and under no other, exactly
\* when it is nearer to its lattice node than 40% of the mean length of u and
\* v; origin, xRef and yRef are put under (0, 0), (1, 0) and (0, 1); an
\* ellipse is in a row (column) of the grid returned, and in one only, exactly
\* when it was put and another ellipse was put under its row (column) key.
C20_PutExactlyWhenNear ==
    Resolved =>
       /\ \A k \in Indices(grid.ellipses) :
             /\ grid.placed[k] = NodeOfEllipse(k)
             /\ Cardinality(GroupsWith(grid.gridInfo[1].rows, k)) =
                   IF grid.placed[k].put /\ Cardinality(RowMates(k)) > 1 THEN 1 ELSE 0
             /\ Cardinality(GroupsWith(grid.gridInfo[1].cols, k)) =
                   IF grid.placed[k].put /\ Cardinality(ColMates(k)) > 1 THEN 1 ELSE 0
       /\ grid.placed[grid.basis[1]] = [I |-> 0, J |-> 0, put |-> TRUE]
       /\ grid.placed[grid.basis[2]] = [I |-> 1, J |-> 0, put |-> TRUE]
       /\ grid.placed[grid.basis[3]] = [I |-> 0, J |-> 1, put |-> TRUE]

\* The slanted lattice with its own basis: the ellipse at 2 u is in the row
\* of origin and xRef, the one that is off its node by the whole tolerance is
\* put nowhere, and yRef, alone under its row key, is in no row returned.
C20_Witness ==
    /\ Resolved /\ Len(grid.ellipses) = 5 /\ grid.basis = <<1, 2, 3>>
    /\ Ux = 3 /\ Uy = 4 /\ Vx = -8 /\ Vy = 6
    /\ grid.placed[5] = [I |-> 2, J |-> 0, put |-> TRUE]
    /\ grid.placed[4] = [I |-> 1, J |-> 1, put |-> FALSE]
    /\ grid.gridInfo[1].rows = <<<<1, 2, 5>>>>
    /\ GroupsWith(grid.gridInfo[1].rows, 3) = {}

\* ---------------------------------------------------------------------- C26
\* The positions pushed on the fill stack so far.
PushedSet == {scan.pushes[k] : k \in Indices(scan.pushes)}

\* The blobs filled so far share no pixel.
BlobsApart ==
    \A i, j \in Indices(scan.blobs) :
       i # j => scan.blobs[i].pixels \cap scan.blobs[j].pixels = {}

RECURSIVE CountSum(_, _)
CountSum(blobs, n) == IF n = 0 THEN 0 ELSE CountSum(blobs, n - 1) + blobs[n].count

\* C26: in a scan every target pixel is pushed on the fill stack at most once
\* and only target pixels are; each pixel adds to the moments of one component
\* once (m00 and count are the number of the component's pixels, and the
\* components share no pixel), and at the end the counts of the components
\* sum to the number of target pixels.
C26_EachTargetPixelOnce ==
    /\ Cardinality(PushedSet) = Len(scan.pushes)
    /\ PushedSet \subseteq scan.target
    /\ scan.pc = "fill" =>
          /\ scan.m.m00 = scan.m.count /\ scan.m.count = Cardinality(scan.filled)
          /\ \A i \in Indices(scan.blobs) : scan.blobs[i].pixels \cap scan.filled = {}
    /\ BlobsApart
    /\ \A i \in Indices(scan.blobs) :
          /\ scan.blobs[i].count = Cardinality(scan.blobs[i].pixels)
          /\ scan.blobs[i].pixels \subseteq scan.target
    /\ scan.pc = "done" =>
          /\ CountSum(scan.blobs, Len(scan.blobs)) = Cardinality(scan.target)
          /\ PushedSet = scan.target

\* A scan of a 3 by 3 image is over that had a square of 4 target pixels (the
\* last of them a neighbour of two pixels pushed before it), another component
\* and pixels that are no target.
C26_Witness ==
    /\ scan.pc = "done" /\ scan.width = 3 /\ scan.height = 3
    /\ {0, 1, 3, 4} \subseteq scan.target
    /\ Len(scan.blobs) = 2
    /\ scan.blobs[1].count >= 4
    /\ Cardinality(scan.target) < 9

\* ---------------------------------------------------------------------- C29
AllActive(n) == [i \in 1..n |-> "active"]

\* What the call returns when enableFiltering is false: the sorted detections
\* as they are.  (In utils detected is sorted into reading order in place; in
\* part_004 it is left in the order of the scan.)
Unfiltered ==
    Detection(scan.version, Flat(scan.rows, Len(scan.rows)),
              AllActive(Len(scan.detected)), scan.now)

IterativeDone == pc = "done" /\ method = "iterative" /\ ~TooFew(Len(ellipses))

\* C27: the iterative method runs the number of trim rounds that the caller
\* gave, 0 included: with iterativeIterations = 0 no round is run and every
\* point stays an inlier.
C27_ZeroRoundsWhenZeroGiven ==
    (IterativeDone /\ options.iterativeIterations = 0) =>
       /\ iter.k = 0
       /\ Len(iter.currentData) = Len(ellipses)

\* Given 0 rounds for 5 ellipses, the method has run 3 and has trimmed the
\* list to 3.
C27_ThreeRoundsForZero ==
    /\ IterativeDone /\ options.iterativeIterations = 0
    /\ Len(ellipses) = 5
    /\ iter.k = 3
    /\ Len(iter.currentData) = 3

C27_NoThreeRoundsForZero == ~C27_ThreeRoundsForZero

\* ---------------------------------------------------------------------- C30
\* C30: once handleClear or an upload has emptied the state, the regions and
\* the ellipses stay empty (and the calibration null) as long as nothing else
\* is asked for: no callback of an earlier request fills them.
C30_ClearedStaysEmpty ==
    work.untouched => work.rois = <<>> /\ work.ellipses = <<>>

\* handleProcess was called with 3 regions, handleClear came before the image
\* had loaded, and the callback has set the 3 ellipses of the regions cleared.
C30_StaleExtraction ==
    /\ work.untouched /\ work.rois = <<>> /\ work.pending = <<>>
    /\ Len(work.ellipses) = 3

\* The callback of a detection asked for before the clear has set regions and
\* ellipses.
C30_StaleDetection ==
    /\ work.untouched /\ work.pending = <<>>
    /\ Len(work.rois) = 2 /\ Len(work.ellipses) = 2

C30_NoStaleExtraction == ~C30_StaleExtraction

C30_NoStaleDetection == ~C30_StaleDetection

\* ---------------------------------------------------------------------- C25
\* Every computation started has delivered its image.
ViewSettled == view.requests = <<>> /\ ~view.error

\* C25: when a sector image was asked for props A and then for props B, and
\* both computations have come to their end in either order, the result held
\* (resultSrc, and the image analysed) is the one of B.
C25_LatestResultIsHeld ==
    (ViewSettled /\ view.inputs # 0) =>
       view.resultSrc = view.inputs /\ view.image = view.inputs

\* A was asked for, then B; B's computation ended first and A's after it:
\* the view holds A's result under the props B.
C25_StaleResult ==
    /\ ViewSettled /\ view.effects = 2
    /\ view.inputs = 2 /\ view.resultSrc = 1 /\ view.image = 1

C25_NoStaleResult == ~C25_StaleResult

\* C24.  The claim is stated on the exact values: with x = u*u + v*v,
\* r >= a holds exactly when a <= 0 or a*a <= x, r < a exactly when a > 0
\* and x < a*a, and r <= a exactly when a >= 0 and x <= a*a.
RatLeq(a, b) == ~RatIsNaN(a) /\ ~RatIsNaN(b) /\ ~RatLess(b, a)

RatNeg(a) == [n |-> -a.n, d |-> a.d]

RatAbs(a) == [n |-> Abs(a.n), d |-> a.d]

RadiusSquared(p) == RatAdd(RatMul(p.u, p.u), RatMul(p.v, p.v))

RadiusAtLeast(p, a) == RatLeq(a, I(0)) \/ RatLeq(RatMul(a, a), RadiusSquared(p))

RadiusBelow(p, a) == RatLess(I(0), a) /\ RatLess(RadiusSquared(p), RatMul(a, a))

RadiusAtMost(p, a) == RatLeq(I(0), a) /\ RatLeq(RadiusSquared(p), RatMul(a, a))

\* The polar coordinates of the pixel lie in [rMin, rMax] x [-totalAngle/2,
\* totalAngle/2].
PolarInRange(s, p) ==
    /\ RadiusAtLeast(p, RatNeg(s.rotationCenterX))
    /\ RadiusAtMost(p, RatAdd(I(s.srcW), RatNeg(s.rotationCenterX)))
    /\ RatLeq(RatAbs(p.theta), RatDiv(RatMul(RatAbs(s.slope), I(s.srcH)), I(2)))

\* srcY = theta / slope + srcH / 2, exactly.
SourceY(s, p) == RatAdd(RatDiv(p.theta, RatAbs(s.slope)), Q(s.srcH, 2))

\* 0 <= srcX < srcW and 0 <= srcY < srcH, exactly (srcX = r + rotationCenterX).
SourceInBounds(s, p) ==
    /\ RadiusAtLeast(p, RatNeg(s.rotationCenterX))
    /\ RadiusBelow(p, RatAdd(I(s.srcW), RatNeg(s.rotationCenterX)))
    /\ RatLeq(I(0), SourceY(s, p))
    /\ RatLess(SourceY(s, p), I(s.srcH))

\* floor(srcX): the column k with k <= r + rotationCenterX < k + 1.
SourceColumn(s, p) ==
    CHOOSE k \in 0..(s.srcW - 1) :
        /\ RadiusAtLeast(p, RatAdd(I(k), RatNeg(s.rotationCenterX)))
        /\ RadiusBelow(p, RatAdd(I(k + 1), RatNeg(s.rotationCenterX)))

\* floor(srcY)
SourceRow(s, p) == SourceY(s, p).n \div SourceY(s, p).d

SourceIndex(s, p) == (SourceRow(s, p) * s.srcW + SourceColumn(s, p)) * 4

PixelWritten(p) == p.out # Transparent

\* C24: every output pixel generateSectorImage has treated is either left
\* untouched (all four channels 0) or holds alpha 255 and the three colour
\* channels of the source pixel at (floor(srcX), floor(srcY)), a pixel of the
\* source; it is written exactly when its polar coordinates lie in
\* [rMin, rMax] x [-totalAngle/2, totalAngle/2] and the mapped source
\* coordinates are in bounds; every index read lies in the source buffer, and
\* the source buffer stays as it was read.
C24_PixelsAreCopiedOrUntouched ==
    sector.pc \in {"loop", "resolved"} =>
        /\ sector.data = SourceData(sector.srcW, sector.srcH)
        /\ \A i \in Indices(sector.pixels) :
              LET p == sector.pixels[i]
              IN  /\ PixelWritten(p) <=> (PolarInRange(sector, p) /\ SourceInBounds(sector, p))
                  /\ p.reads \subseteq 0..(Len(sector.data) - 1)
                  /\ PixelWritten(p) =>
                        /\ SourceColumn(sector, p) \in 0..(sector.srcW - 1)
                        /\ SourceRow(sector, p) \in 0..(sector.srcH - 1)
                        /\ p.out = <<sector.data[SourceIndex(sector, p) + 1],
                                     sector.data[SourceIndex(sector, p) + 2],
                                     sector.data[SourceIndex(sector, p) + 3], 255>>
                        /\ p.reads = {SourceIndex(sector, p), SourceIndex(sector, p) + 1,
                                      SourceIndex(sector, p) + 2}
                  /\ ~PixelWritten(p) => p.reads = {}

\* A call that has returned after it copied a source pixel other than the
\* first one into one output pixel and left another output pixel untouched.
C24_Witness ==
    /\ sector.pc = "resolved"
    /\ \E i, j \in Indices(sector.pixels) :
          /\ PixelWritten(sector.pixels[i])
          /\ sector.pixels[i].out[1] > 1
          /\ ~PixelWritten(sector.pixels[j])

\* C21, C22.  The ellipse list of the two claims: 9 ellipses with rx = ry =
\* 10 whose centres are the 9 nodes of a grid along the image axes with 50 px
\* between neighbours, in any order.
CentresOf(ells) == {<<ells[k].cx, ells[k].cy>> : k \in Indices(ells)}

LeastOf(S) == CHOOSE x \in S : \A y \in S : x <= y

GridNodes(x0, y0) == {<<x0 + 50 * i, y0 + 50 * j>> : i, j \in 0..2}

Grid3x3(ells) ==
    /\ Len(ells) = 9
    /\ \A k \in Indices(ells) : ells[k].rx = 10 /\ ells[k].ry = 10
    /\ Cardinality(CentresOf(ells)) = 9
    /\ CentresOf(ells) = GridNodes(LeastOf({ells[k].cx : k \in Indices(ells)}),
                                   LeastOf({ells[k].cy : k \in Indices(ells)}))

\* The exhaustive search has returned.
Searched ==
    /\ spots.mode = "exhaustive"
    /\ spots.pc \in {"detected", "measured", "spaced", "returned"}

ThreeOfThree(groups) ==
    /\ Len(groups) = 3
    /\ \A g \in Indices(groups) : Len(groups[g].points) = 3
    /\ \A k \in 1..9 :
          Cardinality({g \in Indices(groups) :
                          \E i \in Indices(groups[g].points) : groups[g].points[i] = k}) = 1

\* C21: for 9 ellipses of radius 10 on an axis-aligned 3 by 3 grid with 50 px
\* spacing, findOptimalGrid returns exactly 3 rows and exactly 3 columns of
\* exactly 3 members each, and every ellipse is in exactly one row and in
\* exactly one column.
C21_ThreeRowsAndThreeColumns ==
    (Searched /\ Grid3x3(spots.ellipses)) =>
        /\ spots.gridInfo # <<>>
        /\ ThreeOfThree(spots.gridInfo[1].rows)
        /\ ThreeOfThree(spots.gridInfo[1].cols)

\* The search has returned for the grid given in an order that is not row by
\* row, after it tried the axes and at least 5 slanted candidates.
C21_Witness ==
    /\ Searched
    /\ Grid3x3(spots.ellipses)
    /\ spots.ellipses[1].cx > spots.ellipses[2].cx
    /\ spots.search.tried >= 7
    /\ Len(spots.gridInfo[1].rows) = 3

\* C22: for the same 9 ellipses analyzeTransformedSpots reports spacingMean =
\* 50 and spacingCV < 0.02: the 50 px gaps between neighbours are counted as
\* spacing.
C22_SpacingOfTheGrid ==
    (spots.pc = "returned" /\ spots.mode = "exhaustive" /\ Grid3x3(spots.ellipses)) =>
        /\ spots.metrics[1].spacingMean = DInt(50)
        /\ DLess(spots.metrics[1].spacingCV, Dbl(Q(1, 50)))

\* What the call returns for them: no gap was counted, spacingMean is 0 and
\* spacingCV is 1.
C22_NoGapCounted ==
    /\ spots.pc = "returned"
    /\ spots.mode = "exhaustive"
    /\ Grid3x3(spots.ellipses)
    /\ spots.spacing[1].spacings = <<>>
    /\ spots.metrics[1].spacingMean = DZero
    /\ spots.metrics[1].spacingCV = DInt(1)

C22_NoNoGapCounted == ~C22_NoGapCounted

\* C23.  x lies in [0, 100].
IsScore(x) == ~DLess(x, DZero) /\ ~DLess(DInt(100), x) /\ x.k # "nan"

\* round(0.40 * scoreRoundness + 0.35 * scoreLinearity + 0.25 * scoreConsistency)
\* of the sub-scores as they are defined, the decays before any rounding.
SpecifiedFinalScore ==
    Rounded(Weighted(DecayOfRoundness(spots.basics[1]),
                     DecayOfLinearity(spots.basics[1], spots.linearity[1]),
                     DecayOfConsistency(spots.basics[1], spots.spacing[1])))

\* C23: for every ellipse set the three sub-scores and finalScore lie in
\* [0, 100], and finalScore is the rounded weighted sum of the sub-scores as
\* defined (the unrounded decays), not of sub-scores rounded beforehand.
C23_ScoresAsSpecified ==
    spots.pc = "returned" =>
        /\ IsScore(spots.metrics[1].scoreRoundness)
        /\ IsScore(spots.metrics[1].scoreLinearity)
        /\ IsScore(spots.metrics[1].scoreConsistency)
        /\ IsScore(spots.metrics[1].finalScore)
        /\ Len(spots.ellipses) >= 2 => spots.metrics[1].finalScore = SpecifiedFinalScore

\* A call that returned every score in [0, 100] and a finalScore that is not
\* the rounded weighted sum of the unrounded decays: 49 where that is 50.
C23_RoundedTwice ==
    /\ spots.pc = "returned"
    /\ Len(spots.ellipses) >= 2
    /\ IsScore(spots.metrics[1].scoreRoundness)
    /\ IsScore(spots.metrics[1].scoreLinearity)
    /\ IsScore(spots.metrics[1].scoreConsistency)
    /\ spots.metrics[1].finalScore = DInt(49)
    /\ SpecifiedFinalScore = DInt(50)

\* A call that returned NaN for scoreRoundness and for finalScore.
C23_ScoreIsNaN ==
    /\ spots.pc = "returned"
    /\ spots.metrics[1].scoreRoundness.k = "nan"
    /\ spots.metrics[1].finalScore.k = "nan"

C23_NoRoundedTwice == ~C23_RoundedTwice

C23_NoScoreIsNaN == ~C23_ScoreIsNaN

\* C28.  A call on 2 or more ellipses has returned and the grid resolver
\* reported no row: no grid at all, or a grid without rows.
ReturnedWithoutRow ==
    /\ spots.pc = "returned"
    /\ Len(spots.ellipses) >= 2
    /\ (spots.gridInfo = <<>> \/ spots.gridInfo[1].rows = <<>>)

C28_CollinearBasis ==
    /\ ReturnedWithoutRow
    /\ spots.mode = "basis"
    /\ spots.gridInfo = <<>>
    /\ spots.metrics[1].scoreLinearity = DInt(100)

\* No row and no column at the forced orientation: the full score.
C28_NothingFound ==
    /\ ReturnedWithoutRow
    /\ spots.gridInfo # <<>>
    /\ spots.gridInfo[1].cols = <<>>
    /\ spots.metrics[1].scoreLinearity = DInt(100)

\* Ellipses of radius 0 without a row: scoreLinearity is 1.
C28_NoRadius ==
    /\ ReturnedWithoutRow
    /\ spots.metrics[1].radiusMean = DZero
    /\ spots.metrics[1].scoreLinearity = DInt(1)

C28_NoCollinearBasis == ~C28_CollinearBasis

C28_NoNothingFound == ~C28_NothingFound

C28_NoNoRadius == ~C28_NoRadius

====
